---- MODULE Spec2Model ----
(***************************************************************************)
(* A model of conv1d_text_vae.py (class Conv1dTextVAE and its helpers).    *)
(*                                                                         *)
(* The module holds several specifications over one list of variables.     *)
(* Each specification drives one part of the program and leaves the        *)
(* variables of the other parts at their idle values:                      *)
(*   SpecTexts   find_best_texts applied to bounded candidate tables       *)
(*   SpecWords   find_best_words applied to bounded distance combinations  *)
(*   SpecParams  check_params applied to bounded parameter sets            *)
(*   SpecPredict predict on a fitted estimator, batch by batch and decoder *)
(*               step by decoder step                                      *)
(*   SpecFit     one call of fit on a new or a fitted estimator            *)
(*   Spec        sequences of fit, __setstate__, set_params, transform and *)
(*               predict calls on one estimator; of transform and predict  *)
(*               it keeps the checks they make on entry                    *)
(*   SpecVocabulary  prepare_vocabulary_and_word_vectors on bounded texts  *)
(*   SpecWeights How the steps of __dump_weights, __load_weights, of the   *)
(*               two training phases of fit and of __getstate__ followed   *)
(*               by __setstate__ treat the networks and the temporary      *)
(*               weights files                                             *)
(*   SpecPostprocess  postprocess_reconstructed_word_vectors applied to    *)
(*               bounded arrays                                            *)
(*   SpecDecoder check_params and the decoder part of __create_model for   *)
(*               bounded sizes                                             *)
(*   SpecBatches the loop of transform over the batches of texts_to_data,  *)
(*               and the epochs of fit_generator over SequenceForVAE and   *)
(*               SequenceForSeq2Seq                                        *)
(*                                                                         *)
(* Python indexes from 0 and TLA+ sequences from 1: a Python position or   *)
(* rank i is i + 1 here.  Distances are integers (hundredths or ranks);    *)
(* the code only compares and sorts them.                                  *)
(***************************************************************************)
EXTENDS Integers, Sequences, FiniteSets, TLC

VARIABLES
    \* ---- find_best_texts ----
    variants_of_text,   \* the argument: per position, a list of <<word, distance>>
    ntop,               \* the argument ntop
    used_variants,      \* the returned list of texts
    ft_pc,              \* "off" | "call" | "done"
    \* ---- find_best_words ----
    special_symbols,    \* the argument special_symbols (<<>>: None or empty)
    word_query,         \* what the function measures on its argument word_vector
    res,                \* the local `res`, returned at line 642
    fw_pc,              \* "off" | "call" | "done"
    \* ---- check_params ----
    cp_params,          \* the keyword arguments **params
    cp_result,          \* "ok", or the exception raised
    cp_pc,              \* "off" | "call" | "done"
    \* ---- predict ----
    X,                  \* the argument: [kind |-> container type, items |-> texts]
    batch_size,         \* the hyperparameter batch_size
    output_text_size_in_characters_,   \* fitted: the character bound
    weights,            \* the weights of the four fitted networks
    batch_ind,          \* texts_to_data: the next batch to yield
    start_pos,          \* line 431
    generated_texts,    \* line 420
    data_for_batch,     \* the rows of the batch being decoded
    state_value,        \* per row: the recurrent state
    target_seq,         \* per row: the character fed to the decoder next
    stop_conditions,    \* per row
    decoded_sentences,  \* per row: the emitted characters
    decoder_steps,      \* how often line 456 ran for this batch
    predicted,          \* the returned value
    pr_pc,              \* "off" | "next" | "decode" | "done"
    \* ---- the estimator ----
    est,                \* the attributes fit and __setstate__ assign
    hyperparameters,    \* what get_params returns, the embeddings apart
    input_embeddings,   \* "FastText" or "None"
    \* ---- one call of fit ----
    fit_X,              \* the argument X
    fit_y,              \* the argument y
    est_before,         \* est when fit was entered
    fit_result,         \* what the call did
    fit_pc,             \* "off" | "call" | "done"
    \* ---- a sequence of calls on one estimator ----
    completed,          \* some fit or __setstate__ has returned without raising
    last_call,          \* the latest call and how it ended
    \* ---- prepare_vocabulary_and_word_vectors ----
    all_texts,          \* the argument: the tokenized texts
    voc_special_symbols,\* the argument special_symbols (<<>>: None)
    max_vocabulary_size,\* the argument (0: None)
    src_fasttext,       \* what get_vocabulary_and_word_vectors_from_fasttext returned
    prepared,           \* what prepare_vocabulary_and_word_vectors returned
    voc_pc,             \* "off" | "call" | "done"
    \* ---- weights files, the training phases of fit, __getstate__/__setstate__ ----
    w_op,               \* "fit" | "dump" | "load" | "state"
    w_est,              \* the estimator: hyperparameters and fitted attributes
    layers,             \* the layers of the networks: weights and trainable flag
    tmp_files,          \* the temporary files by name
    tmp_weights_name,   \* the name get_temp_name returned last (0: none yet)
    weights_as_bytes,   \* the bytes dumped, or the argument of __load_weights
    w_state,            \* the record __getstate__ returned
    phase,              \* "vae" | "seq2seq": the training phase of fit
    epoch,              \* epochs of the phase done
    raising,            \* an exception is leaving the try block
    w_log,              \* the steps of fit so far
    w_pc,               \* position in the operation
    \* ---- postprocess_reconstructed_word_vectors ----
    decoder_output,     \* the argument: an array of some dimension
    prepared_word_vectors, \* what the function returns, or that it raised
    pp_pc,              \* "off" | "call" | "done"
    \* ---- the decoder of __create_model ----
    dec_params,         \* the hyperparameters of the estimator
    dec_max_text_size,  \* the largest number of words of a text of y
    deconv_decoder,     \* the time lengths of the decoder that was built
    dec_pc,             \* "off" | "check" | "create" | "rejected" | "built" | "raised"
    \* ---- transform and the batch generators of fit ----
    seq_kind,           \* "off" | "transform" | "vae" | "seq2seq"
    seq_input_texts,    \* X of transform, input_texts of a generator
    seq_target_texts,   \* target_texts of a generator
    seq_special_symbols, \* the special symbols of the tokenizer, sorted
    seq_batch_size,     \* batch_size
    seq_input_text_size, \* input_text_size_
    seq_epoch,          \* the epoch of fit_generator, from 1
    seq_served,         \* the batch indices asked in this epoch or loop
    seq_items,          \* per batch index, the batch that was built last
    seq_outputs,        \* the local `outputs` of transform
    seq_pc              \* "off" | "run" | "done"

textVars == <<variants_of_text, ntop, used_variants, ft_pc>>

wordVars == <<special_symbols, word_query, res, fw_pc>>

paramVars == <<cp_params, cp_result, cp_pc>>

predictArgs == <<X, batch_size, output_text_size_in_characters_, weights>>

batchVars ==
    <<data_for_batch, state_value, target_seq, stop_conditions, decoded_sentences,
      decoder_steps>>

predictVars ==
    <<predictArgs, batch_ind, start_pos, generated_texts, batchVars, predicted, pr_pc>>

estVars == <<est, hyperparameters, input_embeddings>>

fitVars == <<fit_X, fit_y, est_before, fit_result, fit_pc>>

lifeVars == <<completed, last_call>>

estimatorVars == <<estVars, fitVars, lifeVars>>

vocVars ==
    <<all_texts, voc_special_symbols, max_vocabulary_size, src_fasttext, prepared, voc_pc>>

weightVars ==
    <<w_op, w_est, layers, tmp_files, tmp_weights_name, weights_as_bytes, w_state,
      phase, epoch, raising, w_log, w_pc>>

postVars == <<decoder_output, prepared_word_vectors, pp_pc>>

decVars == <<dec_params, dec_max_text_size, deconv_decoder, dec_pc>>

seqVars ==
    <<seq_kind, seq_input_texts, seq_target_texts, seq_special_symbols, seq_batch_size,
      seq_input_text_size, seq_epoch, seq_served, seq_items, seq_outputs, seq_pc>>

dataVars == <<postVars, decVars, seqVars>>

auxVars == <<vocVars, weightVars, dataVars>>

notDataVars ==
    <<textVars, wordVars, paramVars, predictVars, estimatorVars, vocVars, weightVars>>

vars == <<textVars, wordVars, paramVars, predictVars, estimatorVars, auxVars>>

\* what predict leaves alone, and what a call on the estimator leaves alone
notPredictVars == <<textVars, wordVars, paramVars, estimatorVars, auxVars>>

notLifeVars == <<textVars, wordVars, paramVars, predictVars, fitVars, auxVars>>

(***************************************************************************)
(* Generic helpers                                                         *)
(***************************************************************************)
Min(a, b) == IF a < b THEN a ELSE b

Max(a, b) == IF a > b THEN a ELSE b

Range(s) == { s[i] : i \in DOMAIN s }

(***************************************************************************)
(* find_best_texts (lines 645-662)                                         *)
(***************************************************************************)
\* Bounds of the candidate tables.
MaxPos == 2

MaxCand == 2

MaxNtop == 3

\* Distances in hundredths: 0.05, 0.10, 0.30.
DistValues == {5, 10, 30}

\* Words are character sequences, texts are character sequences too.
Cat == <<"c", "a", "t">>

Dog == <<"d", "o", "g">>

Ran == <<"r", "a", "n">>

CandWords == <<Cat, Dog, Ran>>

\* The word offered at position p with rank r: distinct within a position
\* for up to Len(CandWords) candidates.
WordAt(p, r) == CandWords[((r - 1 + 2 * (p - 1)) % Len(CandWords)) + 1]

DistLists == UNION { [1..k -> DistValues] : k \in 1..MaxCand }

TableOf(dl) ==
    [p \in DOMAIN dl |-> [r \in DOMAIN dl[p] |-> <<WordAt(p, r), dl[p][r]>>]]

\* ' '.join(words)
RECURSIVE JoinWords(_)
JoinWords(words) ==
    IF Len(words) = 0 THEN <<>>
    ELSE IF Len(words) = 1 THEN words[1]
    ELSE words[1] \o <<" ">> \o JoinWords(Tail(words))

\* lines 649-653: the greedy words, position by position
GreedyVariant(v) == [p \in DOMAIN v |-> v[p][1][1]]

\* lines 649-653: ((word_idx, variant_idx), distance) of every non-best
\* candidate, in the order the two nested loops append them
RECURSIVE CollectVariants(_, _)
CollectVariants(v, word_idx) ==
    IF word_idx > Len(v) THEN <<>>
    ELSE [i \in 1..(Len(v[word_idx]) - 1) |->
             <<<<word_idx, i + 1>>, v[word_idx][i + 1][2]>>]
         \o CollectVariants(v, word_idx + 1)

\* the sort key of line 655: (it[1], it[0][0], it[0][1])
KeyLess(a, b) ==
    \/ a[2] < b[2]
    \/ a[2] = b[2] /\ a[1][1] < b[1][1]
    \/ a[2] = b[2] /\ a[1][1] = b[1][1] /\ a[1][2] < b[1][2]

\* stable insertion of x into the sorted sequence s
RECURSIVE InsertVariant(_, _)
InsertVariant(x, s) ==
    IF Len(s) = 0 THEN <<x>>
    ELSE IF KeyLess(x, s[1]) THEN <<x>> \o s
    ELSE <<s[1]>> \o InsertVariant(x, Tail(s))

RECURSIVE SortedFrom(_, _)
SortedFrom(s, i) ==
    IF i = 0 THEN <<>>
    ELSE InsertVariant(s[i], SortedFrom(s, i - 1))

\* a sort that leaves the list in loop order (used to test the ordering claims)
SortVariantsInLoopOrder(s) == s

\* line 655: variants_and_distances.sort(key=...)
SortVariants(s) == SortedFrom(s, Len(s))

\* lines 656-661: one substitution per iteration, written into the SAME
\* new_variant list, which is never reset to the greedy words
RECURSIVE SubstituteLoop(_, _, _, _, _)
SubstituteLoop(v, sorted, new_variant, variant_idx, n_iter) ==
    IF variant_idx > n_iter THEN <<>>
    ELSE LET word_idx == sorted[variant_idx][1][1]
             best_variant_idx == sorted[variant_idx][1][2]
             nv == [new_variant EXCEPT ![word_idx] = v[word_idx][best_variant_idx][1]]
         IN  <<JoinWords(nv)>> \o SubstituteLoop(v, sorted, nv, variant_idx + 1, n_iter)

\* range(min(ntop - 1, len(variants_and_distances))): empty when negative
NumIterations(n, n_variants) == Max(0, Min(n - 1, n_variants))

FindBestTexts(v, n) ==
    LET new_variant == GreedyVariant(v)
        sorted == SortVariants(CollectVariants(v, 1))
    IN  <<JoinWords(new_variant)>>
        \o SubstituteLoop(v, sorted, new_variant, 1, NumIterations(n, Len(sorted)))

TextsIdle ==
    /\ variants_of_text = <<>>
    /\ ntop = 0
    /\ used_variants = <<>>
    /\ ft_pc = "off"

TextsInit ==
    /\ \E n \in 1..MaxPos : \E dl \in [1..n -> DistLists] :
           variants_of_text = TableOf(dl)
    /\ ntop \in 1..MaxNtop
    /\ used_variants = <<>>
    /\ ft_pc = "call"

CallFindBestTexts ==
    /\ ft_pc = "call"
    /\ used_variants' = FindBestTexts(variants_of_text, ntop)
    /\ ft_pc' = "done"
    /\ UNCHANGED <<variants_of_text, ntop>>

TextsNext ==
    CallFindBestTexts /\ UNCHANGED <<wordVars, paramVars, predictVars, estimatorVars, auxVars>>

(***************************************************************************)
(* find_best_words (lines 580-642)                                         *)
(*                                                                         *)
(* The function reads its argument word_vector only through cosine         *)
(* distances to mutually orthogonal comparison vectors (end, unknown, one  *)
(* per special symbol, the padded best word) and through the list          *)
(* similar_by_vector returns.  word_query holds exactly these readings:    *)
(*   to_end, to_unknown   distance to the end / unknown vector             *)
(*   to_special           distance to each special vector (line 602)       *)
(*   similar              the n nearest words, nearest first, each with    *)
(*                        its distance to word_vector when padded          *)
(* as distance ranks 0..MaxD; every weak order of them is realised by some *)
(* word_vector, the comparison vectors being orthogonal.                   *)
(***************************************************************************)
MaxD == 2

MaxSpecial == 1

MaxN == 2

\* a returned value: Python's None, or a list of (name, number) pairs
NoneValue == [is_none |-> TRUE, list |-> <<>>]

ListValue(l) == [is_none |-> FALSE, list |-> l]

\* special symbols as fit sorts them (line 234), and the words of the
\* embedding model in lexicographic order
AllSpecialSymbols == <<"<a>", "<b>", "<c>">>

Lexicon == <<"alpha", "beta", "gamma">>

LexIndex(w) == CHOOSE i \in DOMAIN Lexicon : Lexicon[i] = w

DistRanks == 0..MaxD

\* what similar_by_vector reports beside a word: its similarity, which falls
\* as the distance grows
SimilarityOf(d) == MaxD + 1 - d

SimilarLists ==
    { sl \in UNION { [1..k -> Range(Lexicon) \X DistRanks] : k \in 1..Min(MaxN, Len(Lexicon)) } :
        /\ \A i, j \in DOMAIN sl : i # j => sl[i][1] # sl[j][1]
        /\ \A i \in DOMAIN sl : i > 1 => sl[i - 1][2] <= sl[i][2] }

\* line 587: res = embeddings_model.similar_by_vector(..., topn=n)
SimilarByVector(q) ==
    ListValue([i \in DOMAIN q.similar |->
                  <<q.similar[i][1], SimilarityOf(q.similar[i][2])>>])

\* line 603: int(distance_to_special_vectors.argmin()), the first minimum;
\* line 605: -1 (here 0) without special symbols
ArgMin(ds) ==
    IF Len(ds) = 0 THEN 0
    ELSE CHOOSE i \in DOMAIN ds :
             /\ \A j \in DOMAIN ds : ds[i] <= ds[j]
             /\ \A j \in DOMAIN ds : j < i => ds[j] > ds[i]

\* the sort key of line 641: (it[1], it[0])
PairLess(a, b) ==
    \/ a[2] < b[2]
    \/ a[2] = b[2] /\ LexIndex(a[1]) < LexIndex(b[1])

RECURSIVE InsertPair(_, _)
InsertPair(x, s) ==
    IF Len(s) = 0 THEN <<x>>
    ELSE IF PairLess(x, s[1]) THEN <<x>> \o s
    ELSE <<s[1]>> \o InsertPair(x, Tail(s))

RECURSIVE SortPairsFrom(_, _)
SortPairsFrom(s, i) ==
    IF i = 0 THEN <<>>
    ELSE InsertPair(s[i], SortPairsFrom(s, i - 1))

\* lines 633-641: the candidates with their distances, sorted
WordCandidates(q) == ListValue(SortPairsFrom(q.similar, Len(q.similar)))

\* lines 616, 625, 631
SpecialResult(syms, q, special_idx) ==
    ListValue(<< <<syms[special_idx], q.to_special[special_idx]>> >>)

\* lines 610-642 with the assignments of lines 623 and 627 left out
FindBestWordsKeepingUnknown(syms, q) ==
    LET raw == SimilarByVector(q)
        special_idx == ArgMin(q.to_special)
    IN  IF q.to_end < q.to_unknown
        THEN IF q.to_end < q.similar[1][2]
             THEN IF special_idx >= 1 /\ ~(q.to_end < q.to_special[special_idx])
                  THEN SpecialResult(syms, q, special_idx)
                  ELSE NoneValue
             ELSE raw
        ELSE IF q.to_unknown < q.similar[1][2]
             THEN IF special_idx >= 1 /\ ~(q.to_unknown < q.to_special[special_idx])
                  THEN SpecialResult(syms, q, special_idx)
                  ELSE raw
             ELSE IF special_idx >= 1
                  THEN IF q.to_special[special_idx] < q.similar[1][2]
                       THEN SpecialResult(syms, q, special_idx)
                       ELSE raw
                  ELSE WordCandidates(q)

\* lines 610-642: the cascade.  raw is the value `res` holds on entry (line
\* 587); the branches that assign nothing return it unchanged.
FindBestWords(syms, q) ==
    LET raw == SimilarByVector(q)
        special_idx == ArgMin(q.to_special)
        distance_to_end_vector == q.to_end
        distance_to_unknown_word == q.to_unknown
        distance_to_best_word == q.similar[1][2]
    IN  IF distance_to_end_vector < distance_to_unknown_word
        THEN IF distance_to_end_vector < distance_to_best_word
             THEN IF special_idx >= 1
                  THEN IF distance_to_end_vector < q.to_special[special_idx]
                       THEN NoneValue
                       ELSE SpecialResult(syms, q, special_idx)
                  ELSE NoneValue
             ELSE raw
        ELSE IF distance_to_unknown_word < distance_to_best_word
             THEN IF special_idx >= 1
                  THEN IF distance_to_unknown_word < q.to_special[special_idx]
                       THEN ListValue(<<>>)
                       ELSE SpecialResult(syms, q, special_idx)
                  ELSE ListValue(<<>>)
             ELSE IF special_idx >= 1
                  THEN IF q.to_special[special_idx] < distance_to_best_word
                       THEN SpecialResult(syms, q, special_idx)
                       ELSE raw
                  ELSE WordCandidates(q)

WordsIdle ==
    /\ special_symbols = <<>>
    /\ word_query = <<>>
    /\ res = NoneValue
    /\ fw_pc = "off"

WordsInit ==
    /\ \E k \in 0..MaxSpecial :
           /\ special_symbols = SubSeq(AllSpecialSymbols, 1, k)
           /\ \E ds \in [1..k -> DistRanks], e \in DistRanks, u \in DistRanks,
                 sl \in SimilarLists :
                  word_query = [to_end |-> e, to_unknown |-> u,
                                to_special |-> ds, similar |-> sl]
    /\ res = NoneValue
    /\ fw_pc = "call"

CallFindBestWords ==
    /\ fw_pc = "call"
    /\ res' = FindBestWords(special_symbols, word_query)
    /\ fw_pc' = "done"
    /\ UNCHANGED <<special_symbols, word_query>>

WordsNext ==
    CallFindBestWords /\ UNCHANGED <<textVars, paramVars, predictVars, estimatorVars, auxVars>>

(***************************************************************************)
(* check_params (lines 690-811)                                            *)
(*                                                                         *)
(* A Python value is a record: its type t, its number v (an int as it is,  *)
(* a bool as 0 or 1, a float in thousandths), nan for a float that is NaN, *)
(* and items for the elements of a tuple.  "missing" stands for a key that *)
(* is not in params.                                                       *)
(***************************************************************************)
PyValue(t, v, nan, items) == [t |-> t, v |-> v, nan |-> nan, items |-> items]

IntV(n) == PyValue("int", n, FALSE, <<>>)

BoolV(b) == PyValue("bool", IF b THEN 1 ELSE 0, FALSE, <<>>)

FloatV(thousandths) == PyValue("float", thousandths, FALSE, <<>>)

NaNV == PyValue("float", 0, TRUE, <<>>)

StrV == PyValue("str", 0, FALSE, <<>>)

NoneV == PyValue("NoneType", 0, FALSE, <<>>)

TupleV(items) == PyValue("tuple", 0, FALSE, items)

MissingV == PyValue("missing", 0, FALSE, <<>>)

\* the parameters in the order check_params examines them
ParamNames ==
    <<"warm_start", "use_batch_norm", "use_attention", "verbose",
      "batch_size", "max_epochs", "latent_dim",
      "input_text_size", "output_text_size", "output_onehot_size",
      "n_filters", "kernel_size", "n_recurrent_units",
      "validation_fraction", "lr">>

\* the defaults of __init__ (lines 145-149)
DefaultParams ==
    [name \in Range(ParamNames) |->
        CASE name = "warm_start" -> BoolV(FALSE)
          [] name = "use_batch_norm" -> BoolV(FALSE)
          [] name = "use_attention" -> BoolV(TRUE)
          [] name = "verbose" -> BoolV(FALSE)
          [] name = "batch_size" -> IntV(64)
          [] name = "max_epochs" -> IntV(100)
          [] name = "latent_dim" -> IntV(5)
          [] name = "input_text_size" -> NoneV
          [] name = "output_text_size" -> NoneV
          [] name = "output_onehot_size" -> NoneV
          [] name = "n_filters" -> IntV(128)
          [] name = "kernel_size" -> IntV(3)
          [] name = "n_recurrent_units" -> IntV(128)
          [] name = "validation_fraction" -> FloatV(200)
          [] name = "lr" -> FloatV(1)]

\* isinstance(x, int): a bool is an int in Python
IsInstanceInt(x) == x.t \in {"int", "bool"}

IsInstanceFloat(x) == x.t = "float"

IsNumber(x) == x.t \in {"int", "bool", "float"}

\* the number a value compares as, in thousandths
Thousandths(x) == IF x.t = "float" THEN x.v ELSE 1000 * x.v

\* x <= 0: "yes", "no", or "TypeError" when x has no order with an int;
\* every comparison with NaN is false
LeqZero(x) ==
    IF ~IsNumber(x) THEN "TypeError"
    ELSE IF x.nan THEN "no"
    ELSE IF Thousandths(x) <= 0 THEN "yes" ELSE "no"

\* x >= 1.0
GeqOne(x) ==
    IF ~IsNumber(x) THEN "TypeError"
    ELSE IF x.nan THEN "no"
    ELSE IF Thousandths(x) >= 1000 THEN "yes" ELSE "no"

\* what a check ends with: no exception, or the exception and the parameter
Accepted == <<"ok", "">>

Raised(exc, name) == <<exc, name>>

\* lines 692-711: a flag is a bool or an int
CheckFlag(params, name) ==
    IF params[name].t = "missing" THEN Raised("ValueError", name)
    ELSE IF ~IsInstanceInt(params[name]) THEN Raised("ValueError", name)
    ELSE Accepted

\* lines 712-735, 779-794: a size is an int and positive
CheckSize(params, name) ==
    IF params[name].t = "missing" THEN Raised("ValueError", name)
    ELSE IF ~IsInstanceInt(params[name]) THEN Raised("ValueError", name)
    ELSE IF LeqZero(params[name]) = "yes" THEN Raised("ValueError", name)
    ELSE Accepted

\* lines 736-762: None, or an int and positive
CheckOptionalSize(params, name) ==
    IF params[name].t = "missing" THEN Raised("ValueError", name)
    ELSE IF params[name].t = "NoneType" THEN Accepted
    ELSE IF ~IsInstanceInt(params[name]) THEN Raised("ValueError", name)
    ELSE IF LeqZero(params[name]) = "yes" THEN Raised("ValueError", name)
    ELSE Accepted

\* lines 775-778: the items of the tuple are only compared with 0
RECURSIVE CheckFilterItems(_, _)
CheckFilterItems(items, idx) ==
    IF idx > Len(items) THEN Accepted
    ELSE IF LeqZero(items[idx]) = "TypeError" THEN Raised("TypeError", "n_filters")
    ELSE IF LeqZero(items[idx]) = "yes" THEN Raised("ValueError", "n_filters")
    ELSE CheckFilterItems(items, idx + 1)

\* lines 763-778
CheckNFilters(params) ==
    LET x == params["n_filters"]
    IN  IF x.t = "missing" THEN Raised("ValueError", "n_filters")
        ELSE IF ~IsInstanceInt(x) /\ x.t # "tuple" THEN Raised("ValueError", "n_filters")
        ELSE IF IsInstanceInt(x)
             THEN IF LeqZero(x) = "yes" THEN Raised("ValueError", "n_filters") ELSE Accepted
        ELSE IF Len(x.items) < 1 THEN Raised("ValueError", "n_filters")
        ELSE CheckFilterItems(x.items, 1)

\* lines 795-803
CheckValidationFraction(params) ==
    LET x == params["validation_fraction"]
    IN  IF x.t = "missing" THEN Raised("ValueError", "validation_fraction")
        ELSE IF ~IsInstanceFloat(x) THEN Raised("ValueError", "validation_fraction")
        ELSE IF LeqZero(x) = "yes" \/ GeqOne(x) = "yes"
             THEN Raised("ValueError", "validation_fraction")
        ELSE Accepted

\* lines 804-811
CheckLr(params) ==
    LET x == params["lr"]
    IN  IF x.t = "missing" THEN Raised("ValueError", "lr")
        ELSE IF ~IsInstanceFloat(x) THEN Raised("ValueError", "lr")
        ELSE IF LeqZero(x) = "yes" THEN Raised("ValueError", "lr")
        ELSE Accepted

CheckOne(params, name) ==
    CASE name \in {"warm_start", "use_batch_norm", "use_attention", "verbose"} ->
             CheckFlag(params, name)
      [] name \in {"batch_size", "max_epochs", "latent_dim", "kernel_size",
                   "n_recurrent_units"} -> CheckSize(params, name)
      [] name \in {"input_text_size", "output_text_size", "output_onehot_size"} ->
             CheckOptionalSize(params, name)
      [] name = "n_filters" -> CheckNFilters(params)
      [] name = "validation_fraction" -> CheckValidationFraction(params)
      [] name = "lr" -> CheckLr(params)

\* the checks run in order and the first failure is raised
RECURSIVE CheckFrom(_, _)
CheckFrom(params, i) ==
    IF i > Len(ParamNames) THEN Accepted
    ELSE IF CheckOne(params, ParamNames[i]) # Accepted THEN CheckOne(params, ParamNames[i])
    ELSE CheckFrom(params, i + 1)

CheckParams(params) == CheckFrom(params, 1)

\* the number of parameters that may differ from the defaults of __init__
MaxEdits == 2

ValuePool ==
    { BoolV(TRUE), BoolV(FALSE), IntV(-1), IntV(0), IntV(2),
      FloatV(-500), FloatV(0), FloatV(500), FloatV(1000), FloatV(1500), NaNV,
      StrV, NoneV, MissingV,
      TupleV(<<>>), TupleV(<<IntV(2)>>), TupleV(<<IntV(2), IntV(0)>>),
      TupleV(<<FloatV(1500)>>), TupleV(<<IntV(2), StrV>>) }

\* the parameter sets that differ from the defaults in at most MaxEdits places
RECURSIVE EditedParamSets(_)
EditedParamSets(k) ==
    IF k = 0 THEN {DefaultParams}
    ELSE { [ps EXCEPT ![name] = x] :
               ps \in EditedParamSets(k - 1), name \in Range(ParamNames), x \in ValuePool }

ParamsIdle ==
    /\ cp_params = DefaultParams
    /\ cp_result = Accepted
    /\ cp_pc = "off"

ParamsInit ==
    /\ cp_params \in EditedParamSets(MaxEdits)
    /\ cp_result = Accepted
    /\ cp_pc = "call"

CallCheckParams ==
    /\ cp_pc = "call"
    /\ cp_result' = CheckParams(cp_params)
    /\ cp_pc' = "done"
    /\ UNCHANGED cp_params

ParamsNext ==
    CallCheckParams /\ UNCHANGED <<textVars, wordVars, predictVars, estimatorVars, auxVars>>

(***************************************************************************)
(* predict (lines 416-484) with texts_to_data (lines 829-866)              *)
(*                                                                         *)
(* A text is its sequence of word tokens.  The row texts_to_data builds    *)
(* for a text holds one vector per token up to max_text_size, so a row is  *)
(* modelled as the tokens it keeps.  The four networks are deterministic   *)
(* and work row by row; they are stood in for by EncodeState and           *)
(* DecoderStep, which depend on the weights.                               *)
(***************************************************************************)
MaxPredictTexts == 3

MaxBatch == 2

MaxWeights == 2

MaxTargetChars == 1

\* the size of the stand-in for the recurrent state
HiddenStates == 4

\* line 260: output_text_size_in_characters_ += 3
LengthMargin == 3

\* input_text_size_ of the fitted estimator
InputTextSize == 1

SEQUENCE_BEGIN == <<"<", "B", "O", "S", ">">>

SEQUENCE_END == <<"<", "E", "O", "S", ">">>

\* reverse_target_char_index_ (line 262): index i of Python is i + 1 here;
\* the characters are sorted (line 259)
ReverseTargetCharIndex == <<SEQUENCE_BEGIN, SEQUENCE_END, <<"a">>>>

TargetCharIndex(char) ==
    CHOOSE i \in DOMAIN ReverseTargetCharIndex : ReverseTargetCharIndex[i] = char

PredictTexts == { <<"a">>, <<"b">>, <<"a", "b">>, <<>> }

TokenCode(token) == IF token = "a" THEN 1 ELSE 2

\* lines 844-846: the tokens beyond max_text_size are dropped
RowOfText(text, max_text_size) == SubSeq(text, 1, Min(Len(text), max_text_size))

\* line 831: int(math.ceil(len(input_texts) / batch_size))
NumBatches(n, bs) == (n + bs - 1) \div bs

\* lines 835-841: the rows of batch batch_ind (from 0); the rows past the end
\* of input_texts repeat the last text
TextsToData(input_texts, bs, max_text_size, b) ==
    [k \in 1..bs |->
        LET src_text_idx == b * bs + (k - 1)
            prep_text_idx == IF src_text_idx >= Len(input_texts)
                             THEN Len(input_texts) - 1 ELSE src_text_idx
        IN  RowOfText(input_texts[prep_text_idx + 1], max_text_size)]

RECURSIVE SumCodes(_)
SumCodes(row) == IF Len(row) = 0 THEN 0 ELSE TokenCode(row[1]) + SumCodes(Tail(row))

\* lines 439-442: encoder, decoder, postprocessing and generator encoder, for
\* one row
EncodeState(w, row) == (SumCodes(row) + w) % HiddenStates

\* lines 456-457 for one row: the next recurrent state and the arg-max token
DecoderStep(w, h, token_idx) ==
    LET h2 == (h + (token_idx - 1) + w + 1) % HiddenStates
    IN  [state |-> h2, token |-> (h2 % Len(ReverseTargetCharIndex)) + 1]

\* lines 463-464 with the length test >= instead of >
RowStopsOneEarly(sampled_char, n_decoded, bound) ==
    sampled_char = SEQUENCE_END \/ n_decoded >= bound

\* lines 463-464 without the length test
RowStopsOnlyAtEnd(sampled_char, n_decoded, bound) ==
    sampled_char = SEQUENCE_END

\* lines 463-464 without the test of the sampled character
RowStopsOnlyAtBound(sampled_char, n_decoded, bound) ==
    n_decoded > bound

\* lines 463-464
RowStops(sampled_char, n_decoded, bound) ==
    sampled_char = SEQUENCE_END \/ n_decoded > bound

\* lines 444-447 without the clamp of end_pos
NTextsInBatchUnclamped(start, n_rows, n_all_texts) == n_rows

\* lines 444-447
NTextsInBatch(start, n_rows, n_all_texts) ==
    LET end_pos == IF start + n_rows > n_all_texts THEN n_all_texts ELSE start + n_rows
    IN  end_pos - start

\* ''.join(symbols)
RECURSIVE JoinSymbols(_)
JoinSymbols(symbols) ==
    IF Len(symbols) = 0 THEN <<>> ELSE symbols[1] \o JoinSymbols(Tail(symbols))

\* lines 483-484
ReturnedValue(kind, texts) == [kind |-> kind, items |-> texts]

NoBatch == <<>>

PredictIdle ==
    /\ X = ReturnedValue("list", <<>>)
    /\ batch_size = 0
    /\ output_text_size_in_characters_ = 0
    /\ weights = 0
    /\ batch_ind = 0
    /\ start_pos = 0
    /\ generated_texts = <<>>
    /\ data_for_batch = NoBatch
    /\ state_value = NoBatch
    /\ target_seq = NoBatch
    /\ stop_conditions = NoBatch
    /\ decoded_sentences = NoBatch
    /\ decoder_steps = 0
    /\ predicted = ReturnedValue("none", <<>>)
    /\ pr_pc = "off"

\* predict is entered on a fitted estimator with a collection of strings
PredictInit ==
    /\ \E n \in 0..MaxPredictTexts, kind \in {"list", "tuple", "ndarray"} :
           \E items \in [1..n -> PredictTexts] : X = ReturnedValue(kind, items)
    /\ batch_size \in 1..MaxBatch
    /\ \E n_characters \in 1..MaxTargetChars :
           output_text_size_in_characters_ = n_characters + LengthMargin
    /\ weights \in 0..MaxWeights
    /\ batch_ind = 0
    /\ start_pos = 0
    /\ generated_texts = <<>>
    /\ data_for_batch = NoBatch
    /\ state_value = NoBatch
    /\ target_seq = NoBatch
    /\ stop_conditions = NoBatch
    /\ decoded_sentences = NoBatch
    /\ decoder_steps = 0
    /\ predicted = ReturnedValue("none", <<>>)
    /\ pr_pc = "next"

\* lines 437-454: the generator yields the next batch; the rows are encoded
\* and every row starts with SEQUENCE_BEGIN, not stopped, nothing emitted
NextBatch ==
    /\ pr_pc = "next"
    /\ batch_ind < NumBatches(Len(X.items), batch_size)
    /\ LET rows == TextsToData(X.items, batch_size, InputTextSize, batch_ind)
       IN  /\ data_for_batch' = rows
           /\ state_value' = [k \in DOMAIN rows |-> EncodeState(weights, rows[k])]
           /\ target_seq' = [k \in DOMAIN rows |-> TargetCharIndex(SEQUENCE_BEGIN)]
           /\ stop_conditions' = [k \in DOMAIN rows |-> FALSE]
           /\ decoded_sentences' = [k \in DOMAIN rows |-> <<>>]
    /\ decoder_steps' = 0
    /\ batch_ind' = batch_ind + 1
    /\ pr_pc' = "decode"
    /\ UNCHANGED <<predictArgs, start_pos, generated_texts, predicted>>
    /\ UNCHANGED notPredictVars

\* lines 455-468: one pass of the while loop.  The decoder runs on all rows;
\* a stopped row is skipped by the for loop (line 459) and keeps its
\* target_seq, but its recurrent state is replaced like every other row's.
DecodeStep ==
    /\ pr_pc = "decode"
    /\ \E k \in DOMAIN stop_conditions : ~stop_conditions[k]
    /\ LET out == [k \in DOMAIN data_for_batch |->
                      DecoderStep(weights, state_value[k], target_seq[k])]
           sampled_char(k) == ReverseTargetCharIndex[out[k].token]
           decoded(k) == Append(decoded_sentences[k], sampled_char(k))
       IN  /\ state_value' = [k \in DOMAIN data_for_batch |-> out[k].state]
           /\ decoded_sentences' =
                  [k \in DOMAIN data_for_batch |->
                      IF stop_conditions[k] THEN decoded_sentences[k] ELSE decoded(k)]
           /\ stop_conditions' =
                  [k \in DOMAIN data_for_batch |->
                      IF stop_conditions[k] THEN TRUE
                      ELSE RowStops(sampled_char(k), Len(decoded(k)),
                                    output_text_size_in_characters_)]
           /\ target_seq' =
                  [k \in DOMAIN data_for_batch |->
                      IF stop_conditions[k] THEN target_seq[k] ELSE out[k].token]
    /\ decoder_steps' = decoder_steps + 1
    /\ UNCHANGED <<predictArgs, batch_ind, start_pos, generated_texts, data_for_batch,
                   predicted, pr_pc>>
    /\ UNCHANGED notPredictVars

\* lines 469-477: the texts of the rows that are texts of X are joined and kept
CollectBatch ==
    /\ pr_pc = "decode"
    /\ \A k \in DOMAIN stop_conditions : stop_conditions[k]
    /\ LET n_texts_in_batch ==
               NTextsInBatch(start_pos, Len(data_for_batch), Len(X.items))
       IN  generated_texts' =
               generated_texts \o
               [text_idx \in 1..n_texts_in_batch |->
                   JoinSymbols(decoded_sentences[text_idx])]
    /\ start_pos' = start_pos + Len(data_for_batch)
    /\ pr_pc' = "next"
    /\ UNCHANGED <<predictArgs, batch_ind, batchVars, predicted>>
    /\ UNCHANGED notPredictVars

\* lines 478-484: the generator is exhausted
PredictReturn ==
    /\ pr_pc = "next"
    /\ batch_ind >= NumBatches(Len(X.items), batch_size)
    /\ predicted' = ReturnedValue(X.kind, generated_texts)
    /\ pr_pc' = "done"
    /\ UNCHANGED <<predictArgs, batch_ind, start_pos, generated_texts, batchVars>>
    /\ UNCHANGED notPredictVars

PredictNext == NextBatch \/ DecodeStep \/ CollectBatch \/ PredictReturn

(***************************************************************************)
(* The estimator: fit (lines 188-386), check_is_fitted (lines 537-540),    *)
(* check_embeddings (lines 567-578), check_texts_param (lines 674-688)     *)
(*                                                                         *)
(* An absent attribute of a size is 0 (every size the code assigns is      *)
(* positive), an absent character index is the empty sequence, an absent   *)
(* network is "absent".  A network is "created" by __create_model,         *)
(* "loaded" once weights were loaded into it and "trained" once a training *)
(* that included it has ended.                                             *)
(***************************************************************************)
MaxFitTexts == 3

\* vector_size of the embedding model
EmbeddingVectorSize == 3

NotString == [is_str |-> FALSE, words |-> <<>>]

Text(words) == [is_str |-> TRUE, words |-> words]

FitItems == { NotString, Text(<<>>), Text(<<"a">>) }

TextLists(max_len) == UNION { [1..n -> FitItems] : n \in 0..max_len }

NoEst ==
    [input_text_size_ |-> 0, output_text_size_ |-> 0,
     input_vector_size_ |-> 0, output_vector_size_ |-> 0,
     vae_encoder_ |-> "absent", vae_decoder_ |-> "absent",
     generator_encoder_ |-> "absent", generator_decoder_ |-> "absent",
     output_text_size_in_characters_ |-> 0,
     target_char_index_ |-> <<>>, reverse_target_char_index_ |-> <<>>]

\* lines 537-540: every one of the eleven attributes exists
IsFitted(e) ==
    /\ e.input_text_size_ # 0
    /\ e.output_text_size_ # 0
    /\ e.input_vector_size_ # 0
    /\ e.output_vector_size_ # 0
    /\ e.vae_encoder_ # "absent"
    /\ e.vae_decoder_ # "absent"
    /\ e.generator_encoder_ # "absent"
    /\ e.generator_decoder_ # "absent"
    /\ e.output_text_size_in_characters_ # 0
    /\ e.target_char_index_ # <<>>
    /\ e.reverse_target_char_index_ # <<>>

\* lines 567-578, output_embeddings being None
CheckEmbeddings(embeddings) == embeddings = "FastText"

\* lines 684-688: every item has split and strip
CheckTextsParam(texts) == \A idx \in DOMAIN texts : texts[idx].is_str

\* lines 814-818
CalcVectorSize(vector_size, n_special_symbols) == vector_size + 2 + n_special_symbols

\* tokenize_into_words: the number of words of a text
TextSize(text) == Len(text.words)

\* tokenize_into_characters (lines 33-43): the characters of the words, one
\* separator between two words
RECURSIVE Characters(_)
Characters(words) ==
    IF Len(words) = 0 THEN <<>>
    ELSE IF Len(words) = 1 THEN <<words[1]>>
    ELSE <<words[1], " ">> \o Characters(Tail(words))

\* lines 218-223 and 282-285
RECURSIVE MaxTextSize(_)
MaxTextSize(texts) ==
    IF Len(texts) = 0 THEN 0 ELSE Max(TextSize(texts[1]), MaxTextSize(Tail(texts)))

\* lines 253-258
RECURSIVE MaxCharacters(_)
MaxCharacters(texts) ==
    IF Len(texts) = 0 THEN 0
    ELSE Max(Len(Characters(texts[1].words)), MaxCharacters(Tail(texts)))

\* sorted(list(target_characters | {SEQUENCE_BEGIN, SEQUENCE_END})), line 259:
\* " " < "<BOS>" < "<EOS>" < "a"
SortedCharacters(texts) ==
    LET chars == UNION { Range(Characters(texts[i].words)) : i \in DOMAIN texts }
    IN  (IF " " \in chars THEN <<" ">> ELSE <<>>)
        \o <<"<BOS>", "<EOS>">>
        \o (IF "a" \in chars THEN <<"a">> ELSE <<>>)

\* Python's round on the non-negative number num / den: to the nearest
\* integer, a tie to the even one, but with a tie going up
RoundHalfUp(num, den) ==
    IF 2 * (num % den) >= den THEN (num \div den) + 1 ELSE num \div den

\* Python's round on the non-negative number num / den: to the nearest
\* integer, a tie to the even one
RoundHalfEven(num, den) ==
    LET q == num \div den
        r == num % den
    IN  IF 2 * r < den THEN q
        ELSE IF 2 * r > den THEN q + 1
        ELSE IF q % 2 = 0 THEN q ELSE q + 1

\* line 201
NEvalSet(n_texts, validation_fraction) ==
    RoundHalfEven(n_texts * Thousandths(validation_fraction), 1000)

\* texts[-n:] and texts[:-n] for 1 <= n < len(texts) (lines 214-217)
LastTexts(texts, n) == SubSeq(texts, Len(texts) - n + 1, Len(texts))

FirstTexts(texts, n) == SubSeq(texts, 1, Len(texts) - n)

Outcome(e, error, n_eval_set, X_train, X_eval, y_train, y_eval) ==
    [est |-> e, error |-> error, n_eval_set |-> n_eval_set,
     X_train |-> X_train, X_eval |-> X_eval, y_train |-> y_train, y_eval |-> y_eval]

FitRaises(e, error) == Outcome(e, error, 0, <<>>, <<>>, <<>>, <<>>)

NotCalled == FitRaises(NoEst, "none")

TrainingOutcomes == { "ok", "vae_training_raises", "seq2seq_training_raises" }

\* lines 296-386: the two trainings; an exception of fit_generator leaves
\* fit through the finally clauses
FitTraining(e, training, split) ==
    IF training = "vae_training_raises"
    THEN [split EXCEPT !.est = e, !.error = "training"]
    ELSE LET e2 == [e EXCEPT !.vae_encoder_ = "trained", !.vae_decoder_ = "trained"]
         IN  IF training = "seq2seq_training_raises"
             THEN [split EXCEPT !.est = e2, !.error = "training"]
             ELSE [split EXCEPT
                      !.est = [e2 EXCEPT !.generator_encoder_ = "trained",
                                         !.generator_decoder_ = "trained"],
                      !.error = "ok"]

\* lines 214-295
FitData(e, ps, X_arg, y_, n_eval_set, training) ==
    LET split == Outcome(e, "ok", n_eval_set,
                         FirstTexts(X_arg, n_eval_set), LastTexts(X_arg, n_eval_set),
                         FirstTexts(y_, n_eval_set), LastTexts(y_, n_eval_set))
        max_text_size == MaxTextSize(y_)
    IN  IF max_text_size = 0 THEN FitRaises(e, "y_all_empty")
        ELSE
        LET vector_size == CalcVectorSize(EmbeddingVectorSize, 0)
            e1 == [e EXCEPT
                     !.output_text_size_ =
                         IF ps["output_text_size"].t = "NoneType" THEN max_text_size
                         ELSE ps["output_text_size"].v,
                     !.input_vector_size_ = vector_size,
                     !.output_text_size_in_characters_ = MaxCharacters(y_) + LengthMargin,
                     !.target_char_index_ = SortedCharacters(y_),
                     !.reverse_target_char_index_ = SortedCharacters(y_),
                     !.output_vector_size_ = vector_size]
        IN  IF ps["warm_start"].v # 0
            THEN FitTraining([e1 EXCEPT !.vae_encoder_ = "loaded",
                                        !.vae_decoder_ = "created",
                                        !.generator_encoder_ = "created",
                                        !.generator_decoder_ = "created"],
                             training, split)
            ELSE IF ps["input_text_size"].t = "NoneType" /\ MaxTextSize(X_arg) = 0
            THEN FitRaises(e1, "X_all_empty")
            ELSE FitTraining([e1 EXCEPT
                                 !.input_text_size_ =
                                     IF ps["input_text_size"].t = "NoneType"
                                     THEN MaxTextSize(X_arg)
                                     ELSE ps["input_text_size"].v,
                                 !.vae_encoder_ = "created",
                                 !.vae_decoder_ = "created",
                                 !.generator_encoder_ = "created",
                                 !.generator_decoder_ = "created"],
                             training, split)

\* lines 188-213
Fit(e, ps, embeddings, X_arg, y_arg, training) ==
    IF CheckParams(ps) # Accepted THEN FitRaises(e, "params")
    ELSE IF ~CheckEmbeddings(embeddings) THEN FitRaises(e, "embeddings")
    ELSE IF ~CheckTextsParam(X_arg) THEN FitRaises(e, "not_string")
    ELSE IF ~y_arg.is_none /\ ~CheckTextsParam(y_arg.list) THEN FitRaises(e, "not_string")
    ELSE IF ~y_arg.is_none /\ Len(y_arg.list) # Len(X_arg) THEN FitRaises(e, "length")
    ELSE
    LET y_ == IF y_arg.is_none THEN X_arg ELSE y_arg.list
        n_eval_set == NEvalSet(Len(X_arg), ps["validation_fraction"])
    IN  IF n_eval_set < 1 THEN FitRaises(e, "no_evaluation_samples")
        ELSE IF n_eval_set >= Len(X_arg) THEN FitRaises(e, "no_training_samples")
        ELSE IF ps["warm_start"].v # 0 /\ ~IsFitted(e) THEN FitRaises(e, "NotFittedError")
        ELSE IF ps["warm_start"].v # 0
                /\ e.input_vector_size_ # CalcVectorSize(EmbeddingVectorSize, 0)
        THEN FitRaises(e, "embeddings_mismatch")
        ELSE FitData(e, ps, X_arg, y_, n_eval_set, training)

\* the hyperparameters an estimator is given
FitParamSets ==
    { [DefaultParams EXCEPT !["validation_fraction"] = FloatV(fraction),
                            !["warm_start"] = BoolV(warm),
                            !["input_text_size"] = size] :
          fraction \in {500, 750}, warm \in BOOLEAN,
          size \in {NoneV, IntV(0), IntV(2)} }

\* an estimator after fit(["a a", "a a"]) with the defaults and half of the
\* texts for evaluation
FittedBefore ==
    Fit(NoEst, [DefaultParams EXCEPT !["validation_fraction"] = FloatV(500)], "FastText",
        <<Text(<<"a", "a">>), Text(<<"a", "a">>)>>, NoneValue, "ok").est

EstIdle ==
    /\ est = NoEst
    /\ hyperparameters = DefaultParams
    /\ input_embeddings = "FastText"

FitIdle ==
    /\ fit_X = <<>>
    /\ fit_y = NoneValue
    /\ est_before = NoEst
    /\ fit_result = NotCalled
    /\ fit_pc = "off"

LifeIdle ==
    /\ completed = FALSE
    /\ last_call = [op |-> "none", error |-> "ok"]

EstimatorIdle == EstIdle /\ FitIdle /\ LifeIdle

FitInit ==
    /\ est \in {NoEst, FittedBefore}
    /\ hyperparameters \in FitParamSets
    /\ input_embeddings = "FastText"
    /\ fit_X \in TextLists(MaxFitTexts)
    /\ fit_y \in {NoneValue} \cup { ListValue(y) : y \in TextLists(MaxFitTexts) }
    /\ est_before = est
    /\ fit_result = NotCalled
    /\ fit_pc = "call"
    /\ LifeIdle

CallFit ==
    /\ fit_pc = "call"
    /\ \E training \in TrainingOutcomes :
           fit_result' = Fit(est, hyperparameters, input_embeddings, fit_X, fit_y, training)
    /\ est' = fit_result'.est
    /\ fit_pc' = "done"
    /\ UNCHANGED <<hyperparameters, input_embeddings, fit_X, fit_y, est_before, lifeVars>>

FitNext ==
    CallFit /\ UNCHANGED <<textVars, wordVars, paramVars, predictVars, auxVars>>

(***************************************************************************)
(* prepare_vocabulary_and_word_vectors (lines 1042-1081),                  *)
(* get_vocabulary_and_word_vectors_from_fasttext (lines 1009-1040) and the *)
(* part of quantize_word_vectors after the clustering (lines 975-1007)     *)
(*                                                                         *)
(* A vector is a sequence of integers and stands for the unit vector of    *)
(* its direction; a centroid is the sum of its members.  Rows, columns and *)
(* indices count from 0 as in the code.  The labelling DBSCAN returns is   *)
(* any labelling of scikit-learn's form: -1 for noise, clusters numbered   *)
(* from 0 without gaps.                                                    *)
(***************************************************************************)
MaxVocTexts == 2

MaxVocSpecial == 2

MaxBudget == 2

\* fasttext_vectors[word] for the words of the model; "nil" has a vector of
\* norm 0, every other token has none
Embedding(word) ==
    IF word \in Range(Lexicon)
    THEN ListValue([c \in 1..EmbeddingVectorSize |-> IF c = LexIndex(word) THEN 1 ELSE 0])
    ELSE IF word = "nil" THEN ListValue([c \in 1..EmbeddingVectorSize |-> 0])
    ELSE NoneValue

\* np.linalg.norm(word_vector) > K.epsilon()
NormAboveEpsilon(vector) == \E c \in DOMAIN vector : vector[c] # 0

VocTexts ==
    { <<>>, <<"alpha">>, <<"beta", "alpha">>, <<"gamma", "<a>", "beta">>,
      <<"oov", "nil", "alpha">>, <<"<b>", "", "gamma">> }

RECURSIVE Flatten(_)
Flatten(texts) == IF Len(texts) = 0 THEN <<>> ELSE texts[1] \o Flatten(Tail(texts))

\* lines 1013-1028: the embedded words in the order of their first
\* occurrence; the index of a word is its place in the list, from 0
RECURSIVE EmbeddedWords(_, _, _)
EmbeddedWords(words, syms, found) ==
    IF Len(words) = 0 THEN found
    ELSE LET cur_word == words[1]
             word_vector == Embedding(cur_word)
             taken == /\ Len(cur_word) > 0
                      /\ cur_word \notin Range(syms)
                      /\ ~word_vector.is_none
                      /\ cur_word \notin Range(found)
                      /\ NormAboveEpsilon(word_vector.list)
         IN  EmbeddedWords(Tail(words), syms, IF taken THEN Append(found, cur_word) ELSE found)

IndexIn(seq, x) == (CHOOSE i \in DOMAIN seq : seq[i] = x) - 1

\* the labellings of n points: -1 or a cluster of 0..k-1, every cluster used
Labellings(n) ==
    { labels \in [1..n -> -1..(n - 1)] :
        \A i \in 1..n : \A c \in 0..labels[i] : \E j \in 1..n : labels[j] = c }

AddVectors(a, b) == [c \in DOMAIN a |-> a[c] + b[c]]

\* line 990 without the count of the noise samples met so far
NoiseClusterShared(n_clusters, n_noise_samples) == n_clusters

\* line 990: the cluster of a noise sample
NoiseCluster(n_clusters, n_noise_samples) == n_clusters + n_noise_samples

\* lines 985-993: the cluster of every sample, one new cluster per noise
\* sample, numbered after the clusters in the order of the samples
RECURSIVE WordClusters(_, _, _, _)
WordClusters(labelling, n_clusters, n_noise_samples, sample_idx) ==
    IF sample_idx > Len(labelling) THEN <<>>
    ELSE IF labelling[sample_idx] < 0
    THEN <<NoiseCluster(n_clusters, n_noise_samples)>>
         \o WordClusters(labelling, n_clusters, n_noise_samples + 1, sample_idx + 1)
    ELSE <<labelling[sample_idx]>>
         \o WordClusters(labelling, n_clusters, n_noise_samples, sample_idx + 1)

RECURSIVE SumOfMembers(_, _, _, _)
SumOfMembers(word_vectors, word_clusters, cluster_idx, sample_idx) ==
    IF sample_idx > Len(word_vectors)
    THEN [c \in 1..EmbeddingVectorSize |-> 0]
    ELSE LET rest == SumOfMembers(word_vectors, word_clusters, cluster_idx, sample_idx + 1)
         IN  IF word_clusters[sample_idx] = cluster_idx
             THEN AddVectors(word_vectors[sample_idx], rest)
             ELSE rest

\* lines 975-1007: from the labelling to the clusters of the samples, the
\* centroids and the number of members of each centroid
QuantizeWordVectors(word_vectors, labelling) ==
    LET n_clusters == Cardinality(Range(labelling) \ {-1})
        n_clusters_with_noise ==
            n_clusters + Cardinality({ it \in DOMAIN labelling : labelling[it] < 0 })
        word_clusters == WordClusters(labelling, n_clusters, 0, 1)
    IN  [word_clusters |-> word_clusters,
         cluster_centers |->
             [row \in 1..n_clusters_with_noise |->
                 SumOfMembers(word_vectors, word_clusters, row - 1, 1)],
         frequencies |->
             [row \in 1..n_clusters_with_noise |->
                 Cardinality({ i \in DOMAIN word_clusters : word_clusters[i] = row - 1 })]]

NotQuantized == [word_clusters |-> <<>>, cluster_centers |-> <<>>, frequencies |-> <<>>]

\* line 1034 with <= for <
BudgetReached(budget, n_vectors) == budget # 0 /\ budget <= n_vectors

\* line 1034: a budget is given and is below the number of word vectors
BudgetExceeded(budget, n_vectors) == budget # 0 /\ budget < n_vectors

\* lines 1009-1040; labelling is what the clustering answers if it is asked
GetVocabularyAndWordVectors(texts, syms, budget, labelling) ==
    LET found == EmbeddedWords(Flatten(texts), syms, <<>>)
        raw_vectors == [i \in DOMAIN found |-> Embedding(found[i]).list]
    IN  IF BudgetExceeded(budget, Len(raw_vectors))
        THEN LET quantized == QuantizeWordVectors(raw_vectors, labelling)
             IN  [vocabulary |->
                      [w \in Range(found) |-> quantized.word_clusters[IndexIn(found, w) + 1]],
                  word_vectors |-> quantized.cluster_centers,
                  quantize_called |-> TRUE,
                  predicted |-> labelling,
                  quantized |-> quantized]
        ELSE [vocabulary |-> [w \in Range(found) |-> IndexIn(found, w)],
              word_vectors |-> raw_vectors,
              quantize_called |-> FALSE,
              predicted |-> <<>>,
              quantized |-> NotQuantized]

\* line 1049
VocVectorSize(syms) == CalcVectorSize(EmbeddingVectorSize, Len(syms))

\* lines 1051-1061 with a matrix of one row per word and special symbol only
WordVectorsMatrixWithoutReservedRows(src_vectors, syms) ==
    [row \in 0..(Len(src_vectors) + Len(syms) - 1) |->
        [col \in 0..(VocVectorSize(syms) - 1) |->
            IF row < Len(src_vectors) /\ col < EmbeddingVectorSize
            THEN src_vectors[row + 1][col + 1]
            ELSE 0]]

\* lines 1051-1061: the matrix, a function of row and column
WordVectorsMatrix(src_vectors, syms) ==
    LET n_src == Len(src_vectors)
        n_rows == n_src + Len(syms) + 2
        vector_size == VocVectorSize(syms)
    IN  [row \in 0..(n_rows - 1) |->
            [col \in 0..(vector_size - 1) |->
                IF row < n_src /\ col < EmbeddingVectorSize THEN src_vectors[row + 1][col + 1]
                ELSE IF \E word_idx \in 0..(Len(syms) - 1) :
                            /\ row = n_src + 1 + word_idx
                            /\ col = EmbeddingVectorSize + 1 + word_idx
                THEN 1
                ELSE IF row = n_src /\ col = EmbeddingVectorSize THEN 1
                ELSE IF row = n_rows - 1 /\ col = vector_size - 1 THEN 1
                ELSE 0]]

\* lines 1062-1078: the index of every token of the texts and of ''
VocabularyOf(texts, syms, src, n_rows) ==
    LET n_src == Len(src.word_vectors)
    IN  [cur_word \in (Range(Flatten(texts)) \ {""}) \cup {""} |->
            IF cur_word = "" THEN n_rows - 1
            ELSE IF cur_word \in Range(syms) THEN n_src + 1 + IndexIn(syms, cur_word)
            ELSE IF cur_word \in DOMAIN src.vocabulary THEN src.vocabulary[cur_word]
            ELSE n_src]

\* lines 1042-1081
PrepareVocabularyAndWordVectors(texts, syms, src) ==
    LET matrix == WordVectorsMatrix(src.word_vectors, syms)
    IN  [vocabulary |-> VocabularyOf(texts, syms, src, Cardinality(DOMAIN matrix)),
         word_vectors |-> matrix]

NothingPrepared == [vocabulary |-> <<>>, word_vectors |-> <<>>]

NoSource ==
    [vocabulary |-> <<>>, word_vectors |-> <<>>, quantize_called |-> FALSE,
     predicted |-> <<>>, quantized |-> NotQuantized]

VocIdle ==
    /\ all_texts = <<>>
    /\ voc_special_symbols = <<>>
    /\ max_vocabulary_size = 0
    /\ src_fasttext = NoSource
    /\ prepared = NothingPrepared
    /\ voc_pc = "off"

VocInit ==
    /\ all_texts \in UNION { [1..n -> VocTexts] : n \in 0..MaxVocTexts }
    /\ \E k \in 0..MaxVocSpecial : voc_special_symbols = SubSeq(AllSpecialSymbols, 1, k)
    /\ max_vocabulary_size \in 0..MaxBudget
    /\ src_fasttext = NoSource
    /\ prepared = NothingPrepared
    /\ voc_pc = "call"

CallPrepareVocabulary ==
    /\ voc_pc = "call"
    /\ \E labelling \in
           Labellings(Len(EmbeddedWords(Flatten(all_texts), voc_special_symbols, <<>>))) :
           src_fasttext' = GetVocabularyAndWordVectors(all_texts, voc_special_symbols,
                                                       max_vocabulary_size, labelling)
    /\ prepared' =
           PrepareVocabularyAndWordVectors(all_texts, voc_special_symbols, src_fasttext')
    /\ voc_pc' = "done"
    /\ UNCHANGED <<all_texts, voc_special_symbols, max_vocabulary_size>>

VocNext ==
    CallPrepareVocabulary
    /\ UNCHANGED <<textVars, wordVars, paramVars, predictVars, estimatorVars, weightVars,
                   dataVars>>

(***************************************************************************)
(* The networks and their weights: __create_model (lines 1185-1343),       *)
(* __load_weights and __dump_weights (lines 1083-1110), the two training   *)
(* phases of fit (lines 270-386), __getstate__ and __setstate__ (lines     *)
(* 1112-1183)                                                              *)
(*                                                                         *)
(* A layer is its name; layers maps each layer that has weights to its     *)
(* weights (a number: 0 as initialized, otherwise what training produced)  *)
(* and its trainable flag.  A network is the set of its layers, and the    *)
(* bytes of a network are the weights of these layers.  Each step that     *)
(* writes, saves, loads, reads or trains either succeeds or raises.        *)
(***************************************************************************)
MaxConvLayers == 2

MaxSeed == 2

MaxEpochs == 2

MaxNames == 2

ConvNames == <<"encoder_conv1d_1", "encoder_conv1d_2", "encoder_conv1d_3">>

NormNames == <<"encoder_batchnorm_1", "encoder_batchnorm_2", "encoder_batchnorm_3">>

DeconvNames == <<"deconv_decoder_1", "deconv_decoder_2", "deconv_decoder_3">>

DeconvNormNames ==
    <<"deconv_decoder_batchnorm_1", "deconv_decoder_batchnorm_2",
      "deconv_decoder_batchnorm_3">>

\* len(n_filters) for a tuple, 1 for an integer (lines 1226, 1232-1233)
NumConvLayers(ps) ==
    IF ps["n_filters"].t = "tuple" THEN Len(ps["n_filters"].items) ELSE 1

\* lines 1227-1228, 1234-1236
EncoderConvLayers(ps) == { ConvNames[k] : k \in 1..NumConvLayers(ps) }

\* lines 1229-1230, 1237-1238
EncoderNormLayers(ps) ==
    IF ps["use_batch_norm"].v = 1
    THEN { NormNames[k] : k \in 1..NumConvLayers(ps) }
    ELSE {}

\* line 1308: Model(encoder_input, z_mean)
VaeEncoderLayers(ps) == EncoderConvLayers(ps) \cup EncoderNormLayers(ps) \cup {"z_mean"}

\* lines 1253-1281: Model(deconv_decoder_input, deconv_decoder)
VaeDecoderLayers(ps) ==
    {"deconv_decoder_dense", "deconv_decoder_embeddings"}
    \cup { DeconvNames[k] : k \in 1..NumConvLayers(ps) }
    \cup (IF ps["use_batch_norm"].v = 1
          THEN { DeconvNormNames[k] : k \in 1..NumConvLayers(ps) }
          ELSE {})

\* line 1320: Model(encoder_input, deconv_decoder_model(z)), z of z_mean and z_log_var
FullVaeLayers(ps) == VaeEncoderLayers(ps) \cup {"z_log_var"} \cup VaeDecoderLayers(ps)

\* lines 1284-1296, 1309-1310
GeneratorEncoderLayers(ps) ==
    {"seq2seq_encoder_gru"}
    \cup (IF ps["use_attention"].v = 1 THEN {"attention_aux3"} ELSE {})

\* lines 1300-1306, 1311-1318
GeneratorDecoderLayers == {"seq2seq_decoder_gru", "seq2seq_decoder_dense"}

\* line 1327: Model([seq2seq_encoder_input, seq2seq_decoder_input], seq2seq_decoder)
Seq2SeqLayers(ps) == GeneratorEncoderLayers(ps) \cup GeneratorDecoderLayers

NetworkNames == <<"vae_encoder", "vae_decoder", "seq2seq_encoder", "seq2seq_decoder">>

\* the layers of vae_encoder_, vae_decoder_, generator_encoder_, generator_decoder_
NetworkLayers(network, ps) ==
    CASE network = "vae_encoder" -> VaeEncoderLayers(ps)
      [] network = "vae_decoder" -> VaeDecoderLayers(ps)
      [] network = "seq2seq_encoder" -> GeneratorEncoderLayers(ps)
      [] network = "seq2seq_decoder" -> GeneratorDecoderLayers

EstimatorLayers(ps) ==
    UNION { NetworkLayers(NetworkNames[k], ps) : k \in DOMAIN NetworkNames }

Layer(weights_, trainable) == [weights |-> weights_, trainable |-> trainable]

\* lines 1185-1343 with every layer trainable whatever warm_start is
CreateModelAllTrainable(ps, warm_start) ==
    [l \in FullVaeLayers(ps) \cup Seq2SeqLayers(ps) |-> Layer(0, TRUE)]

\* lines 1185-1343: new layers; trainable=(not warm_start) for the Conv1D
\* layers of the encoder, z_mean and z_log_var
CreateModel(ps, warm_start) ==
    [l \in FullVaeLayers(ps) \cup Seq2SeqLayers(ps) |->
        Layer(0, IF l \in EncoderConvLayers(ps) \cup {"z_mean", "z_log_var"}
                 THEN ~warm_start
                 ELSE TRUE)]

\* the layers of an estimator fitted before
FittedLayers(ps, seed) == [l \in EstimatorLayers(ps) |-> Layer(seed, TRUE)]

NoLayers == <<>>

\* what model.save_weights writes for a network
WeightsOf(ls, network_layers) == [l \in network_layers |-> ls[l].weights]

\* a load_weights that leaves the layers as they are
KeepWeights(ls, new_weights) == ls

\* what model.load_weights does to the layers
SetWeights(ls, new_weights) ==
    [l \in DOMAIN ls |->
        IF l \in DOMAIN new_weights THEN Layer(new_weights[l], ls[l].trainable) ELSE ls[l]]

Bytes(is_bytes, content) == [is_bytes |-> is_bytes, content |-> content]

NoBytes == Bytes(FALSE, <<>>)

File(intact, content) == [exists |-> TRUE, intact |-> intact, content |-> content]

NoFile == [exists |-> FALSE, intact |-> FALSE, content |-> <<>>]

NoFiles == [name \in 1..MaxNames |-> NoFile]

\* lines 869-874: a name no file has
TempNames(fs) == { name \in DOMAIN fs : ~fs[name].exists }

\* os.remove
Remove(fs, name) == [fs EXCEPT ![name] = NoFile]

\* a finally block that removes nothing
FinallyKeep(fs, name) == fs

\* lines 335-337, 381-383, 1093-1095, 1107-1109
FinallyRemove(fs, name) == IF fs[name].exists THEN Remove(fs, name) ELSE fs

WeightsResult(ls, fs, bytes, error) ==
    [layers |-> ls, files |-> fs, bytes |-> bytes, error |-> error]

LoadFailures == {"none", "open", "write", "load_weights"}

\* lines 1083-1095; tmp is the name get_temp_name returns, failure the step
\* that raises
LoadWeights(ls, network_layers, bytes, fs, tmp, failure) ==
    IF ~bytes.is_bytes THEN WeightsResult(ls, fs, bytes, "ValueError")
    ELSE IF failure = "open"
    THEN WeightsResult(ls, FinallyRemove(fs, tmp), bytes, "raised")
    ELSE IF failure = "write"
    THEN WeightsResult(ls, FinallyRemove([fs EXCEPT ![tmp] = File(FALSE, bytes.content)], tmp),
                       bytes, "raised")
    ELSE LET written == [fs EXCEPT ![tmp] = File(TRUE, bytes.content)]
         IN  IF failure = "load_weights" \/ DOMAIN bytes.content # network_layers
             THEN WeightsResult(ls, FinallyRemove(written, tmp), bytes, "raised")
             ELSE WeightsResult(SetWeights(ls, written[tmp].content),
                                FinallyRemove(Remove(written, tmp), tmp), bytes, "ok")

DumpFailures == {"none", "save_weights", "read"}

\* lines 1097-1110 after check_is_fitted
DumpWeights(ls, network_layers, fs, tmp, failure) ==
    LET cleared == IF fs[tmp].exists THEN Remove(fs, tmp) ELSE fs
        saved == [cleared EXCEPT ![tmp] = File(TRUE, WeightsOf(ls, network_layers))]
    IN  IF failure = "save_weights"
        THEN WeightsResult(ls, FinallyRemove([cleared EXCEPT ![tmp] = File(FALSE, <<>>)], tmp),
                           NoBytes, "raised")
        ELSE IF failure = "read"
        THEN WeightsResult(ls, FinallyRemove(saved, tmp), NoBytes, "raised")
        ELSE WeightsResult(ls, FinallyRemove(Remove(saved, tmp), tmp),
                           Bytes(TRUE, saved[tmp].content), "ok")

\* the attributes fit sets apart from the networks
Attributes(e) ==
    [input_text_size_ |-> e.input_text_size_,
     output_text_size_ |-> e.output_text_size_,
     input_vector_size_ |-> e.input_vector_size_,
     output_vector_size_ |-> e.output_vector_size_,
     output_text_size_in_characters_ |-> e.output_text_size_in_characters_,
     target_char_index_ |-> e.target_char_index_,
     reverse_target_char_index_ |-> e.reverse_target_char_index_]

Estimator(ps, embeddings, attributes, fitted) ==
    [hyperparameters |-> ps, input_embeddings |-> embeddings, attributes |-> attributes,
     fitted |-> fitted]

NoEstimator == Estimator(DefaultParams, "None", Attributes(NoEst), FALSE)

NoWeights == [network \in Range(NetworkNames) |-> NoBytes]

StateRecord(ps, is_fitted, attributes, weights_) ==
    [hyperparameters |-> ps, is_fitted |-> is_fitted, attributes |-> attributes,
     weights_ |-> weights_]

NoState == StateRecord(DefaultParams, FALSE, Attributes(NoEst), NoWeights)

StateResult(state, e, ls, fs, error) ==
    [state |-> state, est |-> e, layers |-> ls, files |-> fs, error |-> error]

\* lines 1112-1133 with the bytes of the two generator networks exchanged
GetStateExchanged(e, ls, fs, tmp, failed_network, failure) ==
    LET dumped(network) ==
            DumpWeights(ls, NetworkLayers(network, e.hyperparameters), fs, tmp, "none").bytes
    IN  StateResult(StateRecord(e.hyperparameters, TRUE, e.attributes,
                                [network \in Range(NetworkNames) |->
                                    IF network = "seq2seq_encoder" THEN dumped("seq2seq_decoder")
                                    ELSE IF network = "seq2seq_decoder"
                                    THEN dumped("seq2seq_encoder")
                                    ELSE dumped(network)]),
                    e, ls, fs, "ok")

\* lines 1112-1133: the hyperparameters without the embeddings and, of a
\* fitted estimator, the attributes and the bytes of the four networks;
\* failed_network is the network whose dump raises (0: none)
GetState(e, ls, fs, tmp, failed_network, failure) ==
    IF ~e.fitted
    THEN StateResult(StateRecord(e.hyperparameters, FALSE, Attributes(NoEst), NoWeights),
                     e, ls, fs, "ok")
    ELSE IF failed_network # 0
    THEN StateResult(NoState, e, ls,
                     DumpWeights(ls, NetworkLayers(NetworkNames[failed_network],
                                                   e.hyperparameters),
                                 fs, tmp, failure).files,
                     "raised")
    ELSE StateResult(StateRecord(e.hyperparameters, TRUE, e.attributes,
                                 [network \in Range(NetworkNames) |->
                                     DumpWeights(ls, NetworkLayers(network, e.hyperparameters),
                                                 fs, tmp, "none").bytes]),
                     e, ls, fs, "ok")

\* lines 1179-1182: the four calls of __load_weights, from the k-th on
RECURSIVE LoadNetworks(_, _, _, _, _, _, _, _)
LoadNetworks(ls, ps, weights_, fs, tmp, k, failed_network, failure) ==
    IF k > Len(NetworkNames) THEN WeightsResult(ls, fs, NoBytes, "ok")
    ELSE LET loaded == LoadWeights(ls, NetworkLayers(NetworkNames[k], ps),
                                   weights_[NetworkNames[k]], fs, tmp,
                                   IF k = failed_network THEN failure ELSE "none")
         IN  IF loaded.error # "ok" THEN loaded
             ELSE LoadNetworks(loaded.layers, ps, weights_, loaded.files, tmp, k + 1,
                               failed_network, failure)

\* lines 1135-1183 for a state that is a dict with every key
SetStateWithWeights(e, state, fs, tmp, failed_network, failure) ==
    IF CheckParams(state.hyperparameters) # Accepted
    THEN StateResult(state, e, NoLayers, fs, "ValueError")
    ELSE IF ~state.is_fitted
    THEN StateResult(state, Estimator(state.hyperparameters, "None", e.attributes, FALSE),
                     NoLayers, fs, "ok")
    ELSE LET ps == state.hyperparameters
             created == [l \in EstimatorLayers(ps) |-> CreateModel(ps, FALSE)[l]]
             loaded == LoadNetworks(created, ps, state.weights_, fs, tmp, 1,
                                    failed_network, failure)
         IN  StateResult(state, Estimator(ps, "None", state.attributes, TRUE),
                         loaded.layers, loaded.files, loaded.error)

\* one epoch of fit_generator: the trainable layers of the model get new weights
Train(ls, model_layers, new_weights) ==
    [l \in DOMAIN ls |->
        IF l \in model_layers /\ ls[l].trainable THEN Layer(new_weights, TRUE) ELSE ls[l]]

\* vae_model_for_training and seq2seq_model_for_training (lines 1320, 1327)
TrainingLayers(ph, ps) == IF ph = "vae" THEN FullVaeLayers(ps) ELSE Seq2SeqLayers(ps)

\* a step of fit: the phase, the step and the number of epochs done
Event(ph, step, epochs) == [phase |-> ph, step |-> step, epochs |-> epochs]

EpochOutcomes == {"improved", "not_improved", "raises", "checkpoint_raises"}

\* the hyperparameters that decide the layers
WeightParamSets ==
    { [DefaultParams EXCEPT !["warm_start"] = BoolV(warm),
                            !["use_batch_norm"] = BoolV(norm),
                            !["use_attention"] = BoolV(attention),
                            !["n_filters"] = n_filters] :
        warm \in BOOLEAN, norm \in BOOLEAN, attention \in BOOLEAN,
        n_filters \in {IntV(128)} \cup { TupleV([k \in 1..n |-> IntV(128)]) : n \in 2..MaxConvLayers } }

WeightsIdle ==
    /\ w_op = "off"
    /\ w_est = NoEstimator
    /\ layers = NoLayers
    /\ tmp_files = NoFiles
    /\ tmp_weights_name = 0
    /\ weights_as_bytes = NoBytes
    /\ w_state = NoState
    /\ phase = "vae"
    /\ epoch = 0
    /\ raising = FALSE
    /\ w_log = <<>>
    /\ w_pc = "off"


\* an estimator, fitted before or new, and the operation called on it
WeightsInit ==
    /\ w_op \in {"fit", "dump", "load", "state"}
    /\ \E ps \in WeightParamSets, fitted \in BOOLEAN, seed \in 1..MaxSeed :
           /\ fitted \/ (w_op = "fit" /\ ps["warm_start"].v = 0 /\ seed = 1)
                     \/ (w_op = "dump" /\ seed = 1)
           /\ w_est = Estimator(ps, "FastText",
                                IF fitted THEN Attributes(FittedBefore) ELSE Attributes(NoEst),
                                fitted)
           /\ layers = IF fitted THEN FittedLayers(ps, seed) ELSE NoLayers
           /\ weights_as_bytes \in
                  IF w_op = "load"
                  THEN {Bytes(FALSE, <<>>),
                        Bytes(TRUE, WeightsOf(FittedLayers(ps, MaxSeed + 1), VaeEncoderLayers(ps)))}
                  ELSE {NoBytes}
    /\ tmp_files = NoFiles
    /\ tmp_weights_name = 0
    /\ w_state = NoState
    /\ phase = "vae"
    /\ epoch = 0
    /\ raising = FALSE
    /\ w_log = <<>>
    /\ w_pc = IF w_op = "fit" THEN "create" ELSE "call"

notWeightVars ==
    <<textVars, wordVars, paramVars, predictVars, estimatorVars, vocVars, dataVars>>

\* lines 1097-1110
CallDumpWeights ==
    /\ w_op = "dump" /\ w_pc = "call"
    /\ IF ~w_est.fitted
       THEN /\ w_pc' = "raised"
            /\ UNCHANGED <<tmp_files, tmp_weights_name, weights_as_bytes>>
       ELSE \E tmp \in TempNames(tmp_files), failure \in DumpFailures,
               network \in Range(NetworkNames) :
               LET dumped == DumpWeights(layers, NetworkLayers(network, w_est.hyperparameters),
                                         tmp_files, tmp, failure)
               IN  /\ tmp_weights_name' = tmp
                   /\ tmp_files' = dumped.files
                   /\ weights_as_bytes' = dumped.bytes
                   /\ w_pc' = IF dumped.error = "ok" THEN "returned" ELSE "raised"
    /\ UNCHANGED <<w_op, w_est, layers, w_state, phase, epoch, raising, w_log>>
    /\ UNCHANGED notWeightVars

\* lines 1083-1095
CallLoadWeights ==
    /\ w_op = "load" /\ w_pc = "call"
    /\ \E tmp \in TempNames(tmp_files), failure \in LoadFailures,
          network \in Range(NetworkNames) :
          LET loaded == LoadWeights(layers, NetworkLayers(network, w_est.hyperparameters),
                                    weights_as_bytes, tmp_files, tmp, failure)
          IN  /\ tmp_weights_name' = IF weights_as_bytes.is_bytes THEN tmp ELSE 0
              /\ tmp_files' = loaded.files
              /\ layers' = loaded.layers
              /\ w_pc' = IF loaded.error = "ok" THEN "returned" ELSE "raised"
    /\ UNCHANGED <<w_op, w_est, weights_as_bytes, w_state, phase, epoch, raising, w_log>>
    /\ UNCHANGED notWeightVars

\* lines 1112-1133
CallGetState ==
    /\ w_op = "state" /\ w_pc = "call"
    /\ \E tmp \in TempNames(tmp_files), failed_network \in 0..Len(NetworkNames),
          failure \in DumpFailures :
          /\ (failed_network = 0) = (failure = "none")
          /\ LET got == GetState(w_est, layers, tmp_files, tmp, failed_network, failure)
             IN  /\ tmp_weights_name' = tmp
                 /\ tmp_files' = got.files
                 /\ w_state' = got.state
                 /\ w_pc' = IF got.error = "ok" THEN "got" ELSE "raised"
    /\ UNCHANGED <<w_op, w_est, layers, weights_as_bytes, phase, epoch, raising, w_log>>
    /\ UNCHANGED notWeightVars

\* lines 1135-1183, on a new object
CallSetState ==
    /\ w_op = "state" /\ w_pc = "got"
    /\ \E tmp \in TempNames(tmp_files), failed_network \in 0..Len(NetworkNames),
          failure \in LoadFailures :
          /\ (failed_network = 0) = (failure = "none")
          /\ LET set == SetStateWithWeights(NoEstimator, w_state, tmp_files, tmp,
                                            failed_network, failure)
             IN  /\ tmp_weights_name' = tmp
                 /\ tmp_files' = set.files
                 /\ w_est' = set.est
                 /\ layers' = set.layers
                 /\ w_pc' = IF set.error = "ok" THEN "returned" ELSE "raised"
    /\ UNCHANGED <<w_op, weights_as_bytes, w_state, phase, epoch, raising, w_log>>
    /\ UNCHANGED notWeightVars

\* lines 270-295: the networks of fit; with warm_start the weights of
\* vae_encoder_ are dumped before and loaded after __create_model
FitCreateModel ==
    /\ w_op = "fit" /\ w_pc = "create"
    /\ LET ps == w_est.hyperparameters
       IN  IF ps["warm_start"].v = 1
           THEN \E tmp \in TempNames(tmp_files), dump_failure \in DumpFailures,
                   load_failure \in LoadFailures :
                   LET dumped == DumpWeights(layers, VaeEncoderLayers(ps), tmp_files, tmp,
                                             dump_failure)
                       loaded == LoadWeights(CreateModel(ps, TRUE), VaeEncoderLayers(ps),
                                             dumped.bytes, dumped.files, tmp, load_failure)
                   IN  /\ tmp_weights_name' = tmp
                       /\ weights_as_bytes' = dumped.bytes
                       /\ IF dumped.error # "ok"
                          THEN /\ layers' = layers
                               /\ tmp_files' = dumped.files
                               /\ w_pc' = "raised"
                          ELSE /\ layers' = loaded.layers
                               /\ tmp_files' = loaded.files
                               /\ w_pc' = IF loaded.error = "ok" THEN "name" ELSE "raised"
           ELSE /\ layers' = CreateModel(ps, FALSE)
                /\ w_pc' = "name"
                /\ UNCHANGED <<tmp_files, tmp_weights_name, weights_as_bytes>>
    /\ UNCHANGED <<w_op, w_est, w_state, phase, epoch, raising, w_log>>
    /\ UNCHANGED notWeightVars

\* lines 312, 358
GetTempName ==
    /\ w_op = "fit" /\ w_pc = "name"
    /\ tmp_weights_name' \in TempNames(tmp_files)
    /\ epoch' = 0
    /\ w_pc' = "training"
    /\ UNCHANGED <<w_op, w_est, layers, tmp_files, weights_as_bytes, w_state, phase, raising,
                   w_log>>
    /\ UNCHANGED notWeightVars

\* lines 313-330, 359-376: one epoch of fit_generator with ModelCheckpoint,
\* which saves the weights of the model when the validation loss improved
TrainingEpoch ==
    /\ w_op = "fit" /\ w_pc = "training" /\ epoch < MaxEpochs
    /\ \E outcome \in EpochOutcomes :
          LET model_layers == TrainingLayers(phase, w_est.hyperparameters)
              trained == Train(layers, model_layers, MaxSeed + epoch + 1)
              started == IF epoch = 0
                         THEN Append(w_log, Event(phase, "training_started", 0))
                         ELSE w_log
          IN  /\ layers' = trained
              /\ tmp_files' =
                     IF outcome = "improved"
                     THEN [tmp_files EXCEPT
                              ![tmp_weights_name] = File(TRUE, WeightsOf(trained, model_layers))]
                     ELSE IF outcome = "checkpoint_raises"
                     THEN [tmp_files EXCEPT ![tmp_weights_name] = File(FALSE, <<>>)]
                     ELSE tmp_files
              /\ w_log' = IF outcome = "improved" THEN Append(started, Event(phase, "checkpoint", epoch + 1))
                          ELSE started
              /\ raising' = (outcome \in {"raises", "checkpoint_raises"})
              /\ w_pc' = IF raising' THEN "finally" ELSE "training"
    /\ epoch' = epoch + 1
    /\ UNCHANGED <<w_op, w_est, tmp_weights_name, weights_as_bytes, w_state, phase>>
    /\ UNCHANGED notWeightVars

\* fit_generator returns
TrainingEnds ==
    /\ w_op = "fit" /\ w_pc = "training" /\ epoch >= 1
    /\ w_log' = Append(w_log, Event(phase, "training_ended", epoch))
    /\ w_pc' = "load"
    /\ UNCHANGED <<w_op, w_est, layers, tmp_files, tmp_weights_name, weights_as_bytes, w_state,
                   phase, epoch, raising>>
    /\ UNCHANGED notWeightVars

\* lines 331-332, 377-378
LoadBest ==
    /\ w_op = "fit" /\ w_pc = "load"
    /\ IF tmp_files[tmp_weights_name].exists
       THEN \E loads \in BOOLEAN :
               /\ layers' = IF loads
                            THEN SetWeights(layers, tmp_files[tmp_weights_name].content)
                            ELSE layers
               /\ w_log' = IF loads THEN Append(w_log, Event(phase, "reload", epoch)) ELSE w_log
               /\ raising' = ~loads
       ELSE UNCHANGED <<layers, w_log, raising>>
    /\ w_pc' = "finally"
    /\ UNCHANGED <<w_op, w_est, tmp_files, tmp_weights_name, weights_as_bytes, w_state, phase,
                   epoch>>
    /\ UNCHANGED notWeightVars

\* lines 335-337, 381-386
Finally ==
    /\ w_op = "fit" /\ w_pc = "finally"
    /\ tmp_files' = FinallyRemove(tmp_files, tmp_weights_name)
    /\ w_log' = IF tmp_files[tmp_weights_name].exists
                THEN Append(w_log, Event(phase, "remove", epoch))
                ELSE w_log
    /\ w_pc' = IF raising THEN "raised" ELSE IF phase = "vae" THEN "unfreeze" ELSE "returned"
    /\ layers' = IF w_pc' = "returned"
                 THEN [l \in EstimatorLayers(w_est.hyperparameters) |-> layers[l]]
                 ELSE layers
    /\ UNCHANGED <<w_op, w_est, tmp_weights_name, weights_as_bytes, w_state, phase, epoch,
                   raising>>
    /\ UNCHANGED notWeightVars

\* lines 338-341
Unfreeze ==
    /\ w_op = "fit" /\ w_pc = "unfreeze"
    /\ layers' =
           IF w_est.hyperparameters["warm_start"].v = 1
           THEN [l \in DOMAIN layers |->
                    IF l \in FullVaeLayers(w_est.hyperparameters)
                    THEN Layer(layers[l].weights, TRUE)
                    ELSE layers[l]]
           ELSE layers
    /\ phase' = "seq2seq"
    /\ w_pc' = "name"
    /\ UNCHANGED <<w_op, w_est, tmp_files, tmp_weights_name, weights_as_bytes, w_state, epoch,
                   raising, w_log>>
    /\ UNCHANGED notWeightVars

WeightsNext ==
    \/ CallDumpWeights
    \/ CallLoadWeights
    \/ CallGetState
    \/ CallSetState
    \/ FitCreateModel
    \/ GetTempName
    \/ TrainingEpoch
    \/ TrainingEnds
    \/ LoadBest
    \/ Finally
    \/ Unfreeze

(***************************************************************************)
(* postprocess_reconstructed_word_vectors (lines 542-565)                  *)
(*                                                                         *)
(* An array is its number of dimensions and, when it has three, its        *)
(* samples: each a sequence of time steps, each a tuple of components, the *)
(* last component being the end column.  A step of the result is the       *)
(* quotient numerator / sqrt(squared_norm): the division of line 564 gives *)
(* nan in every component when squared_norm is 0.                          *)
(***************************************************************************)
MaxSamples == 2

MaxTimeSteps == 2

\* time steps of a decoder output: the arg-max before the end column (by a
\* tie with it, which np.argmax gives to the earlier column), the end column
\* alone, the end column above a nonzero rest
DecoderRows == { <<0, 2, 2>>, <<0, 0, 1>>, <<1, 0, 2>> }

Array(ndim, samples) == [ndim |-> ndim, samples |-> samples]

DecoderOutputs ==
    { Array(2, <<>>), Array(4, <<>>) } \cup
    { Array(3, samples) :
        samples \in UNION { [1..n -> [1..t -> DecoderRows]] :
                               n \in 1..MaxSamples, t \in 1..MaxTimeSteps } }

\* np.argmax: the first position, from 0, of the largest component
ArgMax(vector) ==
    CHOOSE i \in 0..(Len(vector) - 1) :
        /\ \A j \in 0..(Len(vector) - 1) : vector[j + 1] <= vector[i + 1]
        /\ \A j \in 0..(i - 1) : vector[j + 1] < vector[i + 1]

\* lines 552-557 without the floor of line 556
EndIdxWithoutFloor(sample) ==
    LET ends == { time_idx \in 0..(Len(sample) - 1) :
                    ArgMax(sample[time_idx + 1]) = Len(sample[time_idx + 1]) - 1 }
    IN  IF ends = {} THEN Len(sample)
        ELSE CHOOSE time_idx \in ends : \A other \in ends : time_idx <= other

\* lines 552-557: end_idx of one sample
EndIdx(sample) ==
    LET ends == { time_idx \in 0..(Len(sample) - 1) :
                    ArgMax(sample[time_idx + 1]) = Len(sample[time_idx + 1]) - 1 }
    IN  IF ends = {} THEN Len(sample)
        ELSE Max(CHOOSE time_idx \in ends : \A other \in ends : time_idx <= other, 1)

RECURSIVE SquaredNorm(_)
SquaredNorm(vector) ==
    IF Len(vector) = 0 THEN 0 ELSE vector[1] * vector[1] + SquaredNorm(Tail(vector))

\* lines 561-564: the step without its end column, divided by its norm
KeptStep(step) ==
    LET cut == SubSeq(step, 1, Len(step) - 1)
    IN  [numerator |-> cut, squared_norm |-> SquaredNorm(cut)]

\* a step of the zeros of line 546
ZeroStep(width) == [numerator |-> [c \in 1..width |-> 0], squared_norm |-> 1]

\* lines 558-564 for one sample
PostprocessSample(sample) ==
    [t \in 1..Len(sample) |->
        IF t - 1 < EndIdx(sample) THEN KeptStep(sample[t])
        ELSE ZeroStep(Len(sample[t]) - 1)]

\* lines 543-565
PostprocessReconstructedWordVectors(array) ==
    IF array.ndim # 3 THEN [raised |-> TRUE, prepared |-> <<>>]
    ELSE [raised |-> FALSE,
          prepared |-> [s \in DOMAIN array.samples |-> PostprocessSample(array.samples[s])]]

NotPostprocessed == [raised |-> FALSE, prepared |-> <<>>]

PostIdle ==
    /\ decoder_output = Array(0, <<>>)
    /\ prepared_word_vectors = NotPostprocessed
    /\ pp_pc = "off"

PostInit ==
    /\ decoder_output \in DecoderOutputs
    /\ prepared_word_vectors = NotPostprocessed
    /\ pp_pc = "call"

CallPostprocess ==
    /\ pp_pc = "call"
    /\ prepared_word_vectors' = PostprocessReconstructedWordVectors(decoder_output)
    /\ pp_pc' = "done"
    /\ UNCHANGED decoder_output

PostNext == CallPostprocess /\ UNCHANGED <<notDataVars, decVars, seqVars>>

(***************************************************************************)
(* The time lengths of the decoder in __create_model (lines 1246-1278),    *)
(* for hyperparameters that fit has passed through check_params (line 189) *)
(* and an output_text_size_ set by lines 218-229.  The encoder is taken to *)
(* be buildable (input_text_size_ is not below what its layers need).      *)
(***************************************************************************)
MaxOutputTextSize == 5

MaxKernelSize == 3

DecoderParamSets ==
    { [DefaultParams EXCEPT !["output_text_size"] = size,
                            !["kernel_size"] = IntV(kernel_size),
                            !["n_filters"] = n_filters] :
        size \in {NoneV} \cup { IntV(t) : t \in 0..MaxOutputTextSize },
        kernel_size \in 0..MaxKernelSize,
        n_filters \in {IntV(128)} \cup
                     { TupleV([i \in 1..n |-> IntV(128)]) : n \in 1..MaxConvLayers } }

\* lines 226-229: output_text_size_
OutputTextSize(ps, n_words) ==
    IF ps["output_text_size"].t = "NoneType" THEN n_words ELSE ps["output_text_size"].v

\* int(math.ceil(n / 2.0)), which rounds towards plus infinity
CeilHalf(n) == (n + 1) \div 2

\* lines 1246-1249: n_times_of_decoder after `further` passes of the loop
RECURSIVE NTimesOfDecoder(_, _, _)
NTimesOfDecoder(time_size, kernel_size, further) ==
    IF further = 0 THEN CeilHalf(time_size - kernel_size + 1)
    ELSE CeilHalf(NTimesOfDecoder(time_size, kernel_size, further - 1) - kernel_size + 1)

\* lines 1255-1274: a transposed convolution with padding 'valid' and an
\* upsampling by 2, for each of `stages` stages
RECURSIVE DeconvLength(_, _, _)
DeconvLength(n_times, kernel_size, stages) ==
    IF stages = 0 THEN n_times
    ELSE 2 * (DeconvLength(n_times, kernel_size, stages - 1) + kernel_size - 1)

NoDecoder ==
    [n_times_of_decoder |-> 0, length |-> 0, cropping_size |-> 0, time_steps |-> 0]

\* lines 1246-1281: the initial time length, the length after the stages,
\* the cropping and the time steps of the decoder's output
CreateDecoder(ps, n_words) ==
    LET time_size == OutputTextSize(ps, n_words)
        kernel_size == ps["kernel_size"].v
        n_times_of_decoder ==
            NTimesOfDecoder(time_size, kernel_size, NumConvLayers(ps) - 1)
        length == DeconvLength(n_times_of_decoder, kernel_size, NumConvLayers(ps))
        cropping_size == length - time_size
    IN  [n_times_of_decoder |-> n_times_of_decoder,
         length |-> length,
         cropping_size |-> cropping_size,
         time_steps |-> IF cropping_size > 0 THEN length - cropping_size ELSE length]

\* line 1250 divides by n_times_of_decoder (ZeroDivisionError for 0), and
\* line 1252 asks for a Dense layer of n_times_of_decoder * width units,
\* which cannot be built for a negative number
CreateDecoderRaises(ps, n_words) == CreateDecoder(ps, n_words).n_times_of_decoder <= 0

DecIdle ==
    /\ dec_params = <<>>
    /\ dec_max_text_size = 0
    /\ deconv_decoder = NoDecoder
    /\ dec_pc = "off"

DecInit ==
    /\ dec_params \in DecoderParamSets
    /\ dec_max_text_size \in 1..MaxOutputTextSize
    /\ deconv_decoder = NoDecoder
    /\ dec_pc = "check"

\* line 189 of fit: check_params raises or lets fit go on
DecCheckParams ==
    /\ dec_pc = "check"
    /\ dec_pc' = IF CheckParams(dec_params) = Accepted THEN "create" ELSE "rejected"
    /\ UNCHANGED <<dec_params, dec_max_text_size, deconv_decoder>>
    /\ UNCHANGED <<notDataVars, postVars, seqVars>>

\* lines 291-295 of fit, 1246-1281 of __create_model
DecCreateModel ==
    /\ dec_pc = "create"
    /\ IF CreateDecoderRaises(dec_params, dec_max_text_size)
       THEN /\ dec_pc' = "raised"
            /\ deconv_decoder' =
                   [NoDecoder EXCEPT !.n_times_of_decoder =
                       CreateDecoder(dec_params, dec_max_text_size).n_times_of_decoder]
       ELSE /\ dec_pc' = "built"
            /\ deconv_decoder' = CreateDecoder(dec_params, dec_max_text_size)
    /\ UNCHANGED <<dec_params, dec_max_text_size>>
    /\ UNCHANGED <<notDataVars, postVars, seqVars>>

DecNext == DecCheckParams \/ DecCreateModel

(***************************************************************************)
(* The vectorizers and the batch loops: texts_to_data (lines 829-866) as   *)
(* transform consumes it (lines 388-414), SequenceForVAE (lines 1346-1405) *)
(* and SequenceForSeq2Seq (lines 1408-1466) as fit_generator consumes them *)
(* (lines 323-330, 369-376: every index of an epoch once, in any order).   *)
(*                                                                         *)
(* A text is its tuple of tokens.  The matrix of a text is a function of   *)
(* the time step (from 0) whose values are functions of the column (from   *)
(* 0).  The generators get the vocabulary and the word vectors that        *)
(* prepare_vocabulary_and_word_vectors makes of their texts (lines         *)
(* 241-242), the target words of SequenceForVAE being the input words      *)
(* (y = None, line 192).                                                   *)
(***************************************************************************)
MaxSeqTexts == 3

MaxSeqBatch == 2

MaxSeqSpecial == 1

MaxInputTextSize == 3

\* no word, two words of which one may be a special symbol, more words than
\* any text size: without an embedding ("oov"), with a vector of norm 0
\* ("nil"), embedded
SeqTexts == << <<>>, <<"alpha", "<a>">>, <<"nil", "beta", "oov", "alpha">> >>

\* the targets of SequenceForSeq2Seq, by characters
CharTexts == << <<>>, <<"a">>, <<"b", "a">> >>

\* n texts: the texts of the list in turn, from any of them
Corpus(list, n, shift) == [i \in 1..n |-> list[((i + shift) % Len(list)) + 1]]

\* the draws of K.random_normal in the layer z (lines 1188-1191), per sample
Epsilons == {0, 1}

Indicator(col, vector_size) == [c \in 0..(vector_size - 1) |-> IF c = col THEN 1 ELSE 0]

ZeroVector(vector_size) == [c \in 0..(vector_size - 1) |-> 0]

\* word_vector / vector_norm for a vector with at most one nonzero
\* component, as every vector of Embedding is
UnitVector(vector) ==
    [c \in DOMAIN vector |-> IF vector[c] > 0 THEN 1 ELSE IF vector[c] < 0 THEN -1 ELSE 0]

\* lines 847-862: the row of one token
TextsToDataToken(token, syms) ==
    LET vector_size == VocVectorSize(syms)
        word_vector == Embedding(token)
    IN  IF token \in Range(syms)
        THEN Indicator(EmbeddingVectorSize + IndexIn(syms, token), vector_size)
        ELSE IF word_vector.is_none THEN Indicator(vector_size - 2, vector_size)
        ELSE LET divided == IF NormAboveEpsilon(word_vector.list)
                            THEN UnitVector(word_vector.list)
                            ELSE word_vector.list
             IN  [c \in 0..(vector_size - 1) |->
                     IF c < EmbeddingVectorSize THEN divided[c + 1] ELSE 0]

\* lines 842-865: the matrix of one text
TextsToDataMatrix(words, max_text_size, syms) ==
    [time_idx \in 0..(max_text_size - 1) |->
        IF time_idx < Len(words) THEN TextsToDataToken(words[time_idx + 1], syms)
        ELSE IF time_idx = Len(words)
        THEN Indicator(VocVectorSize(syms) - 1, VocVectorSize(syms))
        ELSE ZeroVector(VocVectorSize(syms))]

\* lines 836-841: the text of a row of a batch, the last text for the
\* rows past the end
TextsToDataIndices(n_texts, bs, batch_idx) ==
    [k \in 1..bs |->
        LET src_text_idx == batch_idx * bs + (k - 1)
        IN  IF src_text_idx >= n_texts THEN n_texts - 1 ELSE src_text_idx]

\* vae_encoder_.predict_on_batch for one row (line 404): a pooling over the
\* time steps stands for the network, which maps each row on its own
RECURSIVE SumOfColumn(_, _, _)
SumOfColumn(rows, col, time_idx) ==
    IF time_idx < 0 THEN 0
    ELSE rows[time_idx][col] + SumOfColumn(rows, col, time_idx - 1)

VaeEncoder(rows) ==
    [c \in DOMAIN rows[0] |-> SumOfColumn(rows, c, Cardinality(DOMAIN rows) - 1)]

\* lines 405-409 with all the rows of the batch
RowsToTakeAll(start, n_rows, n_texts) == n_rows

\* lines 405-409: the number of rows of the batch that are kept
RowsToTake(start, n_rows, n_texts) ==
    IF start + n_rows <= n_texts THEN n_rows ELSE n_texts - start

\* lines 1357, 1419: n_batches
NBatches(n_text_pairs, bs) == n_text_pairs \div bs

\* lines 1375-1377, 1440-1442: the text of a row of batch idx
RECURSIVE WrapAround(_, _)
WrapAround(prep_text_idx, n_text_pairs) ==
    IF prep_text_idx >= n_text_pairs
    THEN WrapAround(prep_text_idx - n_text_pairs, n_text_pairs)
    ELSE prep_text_idx

SequenceIndices(n_text_pairs, bs, idx) ==
    [k \in 1..bs |-> WrapAround(idx * bs + (k - 1), n_text_pairs)]

\* lines 241-242: input_vocabulary and input_word_vectors
InputVocabulary(texts, syms) ==
    PrepareVocabularyAndWordVectors(
        texts, syms, GetVocabularyAndWordVectors(texts, syms, 0, <<>>))

\* lines 1381-1384: the token of a time step
TokenAt(text, time_idx) == IF time_idx >= Len(text) THEN "" ELSE text[time_idx + 1]

\* lines 1379-1390 with the test of prev_token one step late
SequenceForVAEInputLate(input_text, input_text_size, voc) ==
    [time_idx \in 0..(input_text_size - 1) |->
        IF time_idx <= 1 \/ TokenAt(input_text, time_idx - 2) # ""
        THEN voc.word_vectors[voc.vocabulary[TokenAt(input_text, time_idx)]]
        ELSE ZeroVector(Cardinality(DOMAIN voc.word_vectors[0]))]

\* lines 1379-1390: a step is written when it is the first or when the token
\* before it is not ''
SequenceForVAEInput(input_text, input_text_size, voc) ==
    [time_idx \in 0..(input_text_size - 1) |->
        IF time_idx = 0 \/ TokenAt(input_text, time_idx - 1) # ""
        THEN voc.word_vectors[voc.vocabulary[TokenAt(input_text, time_idx)]]
        ELSE ZeroVector(Cardinality(DOMAIN voc.word_vectors[0]))]

\* lines 1391-1403
SequenceForVAETarget(target_text, output_text_size, voc) ==
    [time_idx \in 0..(output_text_size - 1) |->
        IF time_idx = 0 \/ TokenAt(target_text, time_idx - 1) # ""
        THEN Indicator(voc.vocabulary[TokenAt(target_text, time_idx)],
                       Cardinality(DOMAIN voc.word_vectors))
        ELSE ZeroVector(Cardinality(DOMAIN voc.word_vectors))]

\* lines 1444-1449: every step is written
SequenceForSeq2SeqInput(input_text, input_text_size, voc) ==
    [time_idx \in 0..(input_text_size - 1) |->
        voc.word_vectors[voc.vocabulary[TokenAt(input_text, time_idx)]]]

\* lines 252-262: the characters of the targets and the two sentinels,
\* sorted, and output_text_size_in_characters_
OutputCharacters(targets) ==
    <<"<BOS>", "<EOS>">>
    \o (IF \E i \in DOMAIN targets : "a" \in Range(targets[i]) THEN <<"a">> ELSE <<>>)
    \o (IF \E i \in DOMAIN targets : "b" \in Range(targets[i]) THEN <<"b">> ELSE <<>>)

RECURSIVE LongestText(_)
LongestText(targets) ==
    IF Len(targets) = 0 THEN 0 ELSE Max(Len(targets[1]), LongestText(Tail(targets)))

OutputTextSizeInCharacters(targets) == LongestText(targets) + LengthMargin

\* line 1452 with one character less
NumberOfCharactersShort(n_characters, output_text_size) ==
    Min(n_characters, output_text_size - 4)

\* line 1452: T
NumberOfCharacters(n_characters, output_text_size) ==
    Min(n_characters, output_text_size - 3)

\* lines 1451-1458: generator_input_data of one sample
GeneratorInputData(characters, output_text_size, chars) ==
    LET T == NumberOfCharacters(Len(characters), output_text_size)
    IN  [t \in 0..(output_text_size - 1) |->
            IF t = 0 THEN Indicator(IndexIn(chars, "<BOS>"), Len(chars))
            ELSE IF t <= T THEN Indicator(IndexIn(chars, characters[t]), Len(chars))
            ELSE IF t = T + 1 THEN Indicator(IndexIn(chars, "<EOS>"), Len(chars))
            ELSE ZeroVector(Len(chars))]

\* lines 1452-1460: generator_target_data of one sample
GeneratorTargetData(characters, output_text_size, chars) ==
    LET T == NumberOfCharacters(Len(characters), output_text_size)
    IN  [t \in 0..(output_text_size - 1) |->
            IF t < T THEN Indicator(IndexIn(chars, characters[t + 1]), Len(chars))
            ELSE IF t <= T + 1 THEN Indicator(IndexIn(chars, "<EOS>"), Len(chars))
            ELSE ZeroVector(Len(chars))]

\* vae.predict_on_batch for one row (line 1463): z is z_mean plus a multiple
\* of the draw epsilon, and the decoder maps z to time steps
DecoderRowList == <<<<0, 2, 2>>, <<0, 0, 1>>, <<1, 0, 2>>>>

RECURSIVE SumOfVector(_, _)
SumOfVector(vector, col) ==
    IF col < 0 THEN 0 ELSE (col + 1) * vector[col] + SumOfVector(vector, col - 1)

FullVAE(rows, epsilon, output_text_size) ==
    LET z == SumOfVector(VaeEncoder(rows), Cardinality(DOMAIN rows[0]) - 1) + epsilon
    IN  [t \in 1..output_text_size |-> DecoderRowList[((z + t) % Len(DecoderRowList)) + 1]]

NoItem ==
    [texts |-> <<>>, input_data |-> <<>>, target_data |-> <<>>,
     reconstructed_word_vectors |-> <<>>, generator_input_data |-> <<>>]

\* lines 1366-1405 of SequenceForVAE.__getitem__
SequenceForVAEGetItem(texts, targets, bs, input_text_size, syms, idx) ==
    LET voc == InputVocabulary(texts, syms)
        indices == SequenceIndices(Len(texts), bs, idx)
    IN  [NoItem EXCEPT
            !.texts = indices,
            !.input_data =
                [k \in 1..bs |->
                    SequenceForVAEInput(texts[indices[k] + 1], input_text_size, voc)],
            !.target_data =
                [k \in 1..bs |->
                    SequenceForVAETarget(targets[indices[k] + 1], input_text_size, voc)]]

\* lines 1428-1465 of SequenceForSeq2Seq.__getitem__
SequenceForSeq2SeqGetItem(texts, targets, bs, input_text_size, syms, idx, epsilons) ==
    LET voc == InputVocabulary(texts, syms)
        indices == SequenceIndices(Len(texts), bs, idx)
        chars == OutputCharacters(targets)
        output_text_size == OutputTextSizeInCharacters(targets)
        input_data ==
            [k \in 1..bs |->
                SequenceForSeq2SeqInput(texts[indices[k] + 1], input_text_size, voc)]
    IN  [texts |-> indices,
         input_data |-> input_data,
         target_data |->
             [k \in 1..bs |->
                 GeneratorTargetData(targets[indices[k] + 1], output_text_size, chars)],
         reconstructed_word_vectors |->
             PostprocessReconstructedWordVectors(
                 Array(3, [k \in 1..bs |->
                              FullVAE(input_data[k], epsilons[k], input_text_size)])).prepared,
         generator_input_data |->
             [k \in 1..bs |->
                 GeneratorInputData(targets[indices[k] + 1], output_text_size, chars)]]

\* what __getitem__ returns (lines 1405, 1465); input_data of
\* SequenceForSeq2Seq stays inside
Returned(item) ==
    IF item.generator_input_data = <<>>
    THEN <<item.input_data, item.target_data>>
    ELSE <<<<item.reconstructed_word_vectors, item.generator_input_data>>, item.target_data>>

\* the number of batches of the loop or of an epoch
BatchesOf(kind, n_texts, bs) ==
    IF kind = "transform" THEN NumBatches(n_texts, bs) ELSE NBatches(n_texts, bs)

SeqIdle ==
    /\ seq_kind = "off"
    /\ seq_input_texts = <<>>
    /\ seq_target_texts = <<>>
    /\ seq_special_symbols = <<>>
    /\ seq_batch_size = 0
    /\ seq_input_text_size = 0
    /\ seq_epoch = 0
    /\ seq_served = {}
    /\ seq_items = <<>>
    /\ seq_outputs = <<>>
    /\ seq_pc = "off"

SeqInit ==
    /\ seq_kind \in {"transform", "vae", "seq2seq"}
    /\ \E n \in 1..MaxSeqTexts, shift \in 0..(Len(SeqTexts) - 1) :
           /\ seq_input_texts = Corpus(SeqTexts, n, shift)
           /\ seq_target_texts =
                  IF seq_kind = "transform" THEN <<>>
                  ELSE IF seq_kind = "vae" THEN seq_input_texts
                  ELSE Corpus(CharTexts, n, shift)
    /\ \E k \in 0..MaxSeqSpecial : seq_special_symbols = SubSeq(AllSpecialSymbols, 1, k)
    /\ seq_batch_size \in 1..MaxSeqBatch
    /\ seq_input_text_size \in (MaxInputTextSize - 1)..MaxInputTextSize
    /\ seq_epoch = 1
    /\ seq_served = {}
    /\ seq_items =
           [idx \in 0..(BatchesOf(seq_kind, Len(seq_input_texts), seq_batch_size) - 1) |->
               NoItem]
    /\ seq_outputs = <<>>
    /\ seq_pc = "run"

seqArgs ==
    <<seq_kind, seq_input_texts, seq_target_texts, seq_special_symbols, seq_batch_size,
      seq_input_text_size>>

\* lines 402-413 of transform: one pass of the loop over the batches
TransformBatch ==
    /\ seq_kind = "transform"
    /\ seq_pc = "run"
    /\ LET batch_idx == Cardinality(seq_served)
           indices == TextsToDataIndices(Len(seq_input_texts), seq_batch_size, batch_idx)
           data == [k \in 1..seq_batch_size |->
                       TextsToDataMatrix(seq_input_texts[indices[k] + 1],
                                         seq_input_text_size, seq_special_symbols)]
           outputs_for_batch == [k \in 1..seq_batch_size |-> VaeEncoder(data[k])]
           n == RowsToTake(Len(seq_outputs), Len(outputs_for_batch), Len(seq_input_texts))
       IN  /\ batch_idx < NumBatches(Len(seq_input_texts), seq_batch_size)
           /\ seq_served' = seq_served \cup {batch_idx}
           /\ seq_items' =
                  [seq_items EXCEPT ![batch_idx] =
                      [NoItem EXCEPT !.texts = indices, !.input_data = data]]
           /\ seq_outputs' = seq_outputs \o SubSeq(outputs_for_batch, 1, n)
    /\ UNCHANGED <<seqArgs, seq_epoch, seq_pc>>
    /\ UNCHANGED <<notDataVars, postVars, decVars>>

\* line 414 of transform
TransformReturn ==
    /\ seq_kind = "transform"
    /\ seq_pc = "run"
    /\ Cardinality(seq_served) >= NumBatches(Len(seq_input_texts), seq_batch_size)
    /\ seq_pc' = "done"
    /\ UNCHANGED <<seqArgs, seq_epoch, seq_served, seq_items, seq_outputs>>
    /\ UNCHANGED <<notDataVars, postVars, decVars>>

\* SequenceForVAE.__getitem__(idx) for an index the epoch has not asked yet
VAEGetItem ==
    /\ seq_kind = "vae"
    /\ seq_pc = "run"
    /\ \E idx \in (DOMAIN seq_items) \ seq_served :
           /\ seq_items' =
                  [seq_items EXCEPT ![idx] =
                      SequenceForVAEGetItem(seq_input_texts, seq_target_texts,
                                            seq_batch_size, seq_input_text_size,
                                            seq_special_symbols, idx)]
           /\ seq_served' = seq_served \cup {idx}
    /\ UNCHANGED <<seqArgs, seq_epoch, seq_outputs, seq_pc>>
    /\ UNCHANGED <<notDataVars, postVars, decVars>>

\* SequenceForSeq2Seq.__getitem__(idx) for an index the epoch has not asked
\* yet; the layer z draws anew in every call
Seq2SeqGetItem ==
    /\ seq_kind = "seq2seq"
    /\ seq_pc = "run"
    /\ \E idx \in (DOMAIN seq_items) \ seq_served :
           \E epsilons \in [1..seq_batch_size -> Epsilons] :
               /\ seq_items' =
                      [seq_items EXCEPT ![idx] =
                          SequenceForSeq2SeqGetItem(seq_input_texts, seq_target_texts,
                                                    seq_batch_size, seq_input_text_size,
                                                    seq_special_symbols, idx, epsilons)]
               /\ seq_served' = seq_served \cup {idx}
    /\ UNCHANGED <<seqArgs, seq_epoch, seq_outputs, seq_pc>>
    /\ UNCHANGED <<notDataVars, postVars, decVars>>

\* fit_generator has asked the len(generator) indices of the epoch and goes
\* on to the next epoch
EpochEnd ==
    /\ seq_kind \in {"vae", "seq2seq"}
    /\ seq_pc = "run"
    /\ seq_served = DOMAIN seq_items
    /\ seq_epoch < MaxEpochs
    /\ seq_epoch' = seq_epoch + 1
    /\ seq_served' = {}
    /\ UNCHANGED <<seqArgs, seq_items, seq_outputs, seq_pc>>
    /\ UNCHANGED <<notDataVars, postVars, decVars>>

SeqNext == TransformBatch \/ TransformReturn \/ VAEGetItem \/ Seq2SeqGetItem \/ EpochEnd

DataIdle == PostIdle /\ DecIdle /\ SeqIdle

AuxIdle == VocIdle /\ WeightsIdle /\ DataIdle

InitPostprocess ==
    PostInit /\ TextsIdle /\ WordsIdle /\ ParamsIdle /\ PredictIdle /\ EstimatorIdle
    /\ VocIdle /\ WeightsIdle /\ DecIdle /\ SeqIdle

InitDecoder ==
    DecInit /\ TextsIdle /\ WordsIdle /\ ParamsIdle /\ PredictIdle /\ EstimatorIdle
    /\ VocIdle /\ WeightsIdle /\ PostIdle /\ SeqIdle

SpecDecoder == InitDecoder /\ [][DecNext]_vars

InitBatches ==
    SeqInit /\ TextsIdle /\ WordsIdle /\ ParamsIdle /\ PredictIdle /\ EstimatorIdle
    /\ VocIdle /\ WeightsIdle /\ PostIdle /\ DecIdle

SpecBatches == InitBatches /\ [][SeqNext]_vars

SpecPostprocess == InitPostprocess /\ [][PostNext]_vars

InitWeights ==
    WeightsInit /\ TextsIdle /\ WordsIdle /\ ParamsIdle /\ PredictIdle /\ EstimatorIdle
    /\ VocIdle /\ DataIdle

SpecWeights == InitWeights /\ [][WeightsNext]_vars

InitVocabulary ==
    VocInit /\ TextsIdle /\ WordsIdle /\ ParamsIdle /\ PredictIdle /\ EstimatorIdle
    /\ WeightsIdle /\ DataIdle

SpecVocabulary == InitVocabulary /\ [][VocNext]_vars

InitFit ==
    FitInit /\ TextsIdle /\ WordsIdle /\ ParamsIdle /\ PredictIdle /\ AuxIdle

SpecFit == InitFit /\ [][FitNext]_vars

(***************************************************************************)
(* A sequence of calls on one estimator: fit, __setstate__ (lines          *)
(* 1135-1183), set_params (lines 517-535), and the checks transform (lines *)
(* 388-391) and predict (lines 416-419) make before they compute anything. *)
(***************************************************************************)
MaxLifeTexts == 2

\* the hyperparameters the estimators of a sequence of calls are given
LifeParamSets ==
    { ps \in FitParamSets :
          /\ ps["validation_fraction"] = FloatV(500)
          /\ ps["input_text_size"] \in {NoneV, IntV(0)} }

\* the targets fit is given in a sequence of calls: none, or one text repeated
LifeTargets ==
    {NoneValue} \cup
    { ListValue([i \in 1..n |-> item]) :
          n \in (MaxLifeTexts - 1)..MaxLifeTexts, item \in {Text(<<>>), Text(<<"a">>)} }

\* the seven attributes a state of a fitted estimator carries (lines
\* 1117-1123)
StateAttributes == FittedBefore

NotADict == [is_dict |-> FALSE, params |-> DefaultParams, fitted |-> FALSE, weights |-> "none"]

\* a state holds the hyperparameters and, of a fitted estimator, the seven
\* attributes and weights_: the dict of four byte strings __getstate__
\* builds ("bytes"), or not a dict, or a dict without one of the keys, or a
\* dict whose vae_encoder is not bytes
StateDicts ==
    {NotADict} \cup
    { [is_dict |-> TRUE, params |-> ps, fitted |-> FALSE, weights |-> "none"] :
          ps \in LifeParamSets } \cup
    { [is_dict |-> TRUE, params |-> ps, fitted |-> TRUE, weights |-> weights_] :
          ps \in LifeParamSets,
          weights_ \in {"bytes", "not_dict", "key_missing", "not_bytes"} }

Restored(e, ps, embeddings, error) ==
    [est |-> e, params |-> ps, input_embeddings |-> embeddings, error |-> error]

\* lines 1135-1183
SetState(e, ps, embeddings, state) ==
    IF ~state.is_dict THEN Restored(e, ps, embeddings, "state_not_dict")
    ELSE IF CheckParams(state.params) # Accepted THEN Restored(e, ps, embeddings, "params")
    ELSE
    LET e1 == [e EXCEPT !.vae_encoder_ = "absent", !.vae_decoder_ = "absent",
                        !.generator_encoder_ = "absent", !.generator_decoder_ = "absent"]
    IN  IF ~state.fitted THEN Restored(e1, state.params, "None", "ok")
        ELSE IF state.weights \in {"not_dict", "key_missing"}
        THEN Restored(e1, state.params, "None", "weights")
        ELSE
        LET e2 == [e1 EXCEPT
                     !.input_text_size_ = StateAttributes.input_text_size_,
                     !.output_text_size_ = StateAttributes.output_text_size_,
                     !.output_text_size_in_characters_ =
                         StateAttributes.output_text_size_in_characters_,
                     !.target_char_index_ = StateAttributes.target_char_index_,
                     !.reverse_target_char_index_ =
                         StateAttributes.reverse_target_char_index_,
                     !.input_vector_size_ = StateAttributes.input_vector_size_,
                     !.output_vector_size_ = StateAttributes.output_vector_size_,
                     !.vae_encoder_ = "created", !.vae_decoder_ = "created",
                     !.generator_encoder_ = "created", !.generator_decoder_ = "created"]
        IN  IF state.weights = "not_bytes"
            THEN Restored(e2, state.params, "None", "weights_not_bytes")
            ELSE Restored([e2 EXCEPT !.vae_encoder_ = "loaded", !.vae_decoder_ = "loaded",
                                     !.generator_encoder_ = "loaded",
                                     !.generator_decoder_ = "loaded"],
                          state.params, "None", "ok")

\* lines 388-391
Transform(e, embeddings, X_arg) ==
    IF ~IsFitted(e) THEN "NotFittedError"
    ELSE IF ~CheckEmbeddings(embeddings) THEN "embeddings"
    ELSE IF ~CheckTextsParam(X_arg) THEN "not_string"
    ELSE "ok"

\* lines 416-419
Predict(e, embeddings, X_arg) ==
    IF ~IsFitted(e) THEN "NotFittedError"
    ELSE IF ~CheckEmbeddings(embeddings) THEN "embeddings"
    ELSE IF ~CheckTextsParam(X_arg) THEN "not_string"
    ELSE "ok"

Called(op, error) == [op |-> op, error |-> error]

\* a new estimator (lines 142-160)
LifeInit ==
    /\ est = NoEst
    /\ hyperparameters \in LifeParamSets
    /\ input_embeddings = "FastText"
    /\ FitIdle
    /\ completed = FALSE
    /\ last_call = Called("none", "ok")

LifeFit ==
    /\ \E X_arg \in TextLists(MaxLifeTexts),
          y_arg \in LifeTargets,
          training \in TrainingOutcomes :
           LET out == Fit(est, hyperparameters, input_embeddings, X_arg, y_arg, training)
           IN  /\ est' = out.est
               /\ completed' = (completed \/ out.error = "ok")
               /\ last_call' = Called("fit", out.error)
               /\ UNCHANGED <<hyperparameters, input_embeddings>>
    /\ UNCHANGED notLifeVars

LifeSetState ==
    /\ \E state \in StateDicts :
           LET out == SetState(est, hyperparameters, input_embeddings, state)
           IN  /\ est' = out.est
               /\ hyperparameters' = out.params
               /\ input_embeddings' = out.input_embeddings
               /\ completed' = (completed \/ out.error = "ok")
               /\ last_call' = Called("__setstate__", out.error)
    /\ UNCHANGED notLifeVars

LifeSetParams ==
    /\ hyperparameters' \in LifeParamSets
    /\ input_embeddings' \in {"FastText", "None"}
    /\ last_call' = Called("set_params", "ok")
    /\ UNCHANGED <<est, completed>>
    /\ UNCHANGED notLifeVars

LifeTransform ==
    /\ \E X_arg \in TextLists(MaxLifeTexts) :
           last_call' = Called("transform", Transform(est, input_embeddings, X_arg))
    /\ UNCHANGED <<est, hyperparameters, input_embeddings, completed>>
    /\ UNCHANGED notLifeVars

LifePredict ==
    /\ \E X_arg \in TextLists(MaxLifeTexts) :
           last_call' = Called("predict", Predict(est, input_embeddings, X_arg))
    /\ UNCHANGED <<est, hyperparameters, input_embeddings, completed>>
    /\ UNCHANGED notLifeVars

Next == LifeFit \/ LifeSetState \/ LifeSetParams \/ LifeTransform \/ LifePredict

Init ==
    LifeInit /\ TextsIdle /\ WordsIdle /\ ParamsIdle /\ PredictIdle /\ AuxIdle

Spec == Init /\ [][Next]_vars

(***************************************************************************)
(* Claims about sequences of calls                                         *)
(***************************************************************************)
\* C4: a transform or predict call raises the not-fitted error unless some
\* earlier fit or __setstate__ on the estimator returned without raising.
C4_InferenceNeedsCompletedFit ==
    (last_call.op \in {"transform", "predict"} /\ last_call.error # "NotFittedError")
        => completed

(***************************************************************************)
(* Claims about fit                                                        *)
(***************************************************************************)
ConfigurationOrDataErrors ==
    { "params", "not_string", "length", "no_evaluation_samples", "no_training_samples",
      "y_all_empty", "X_all_empty" }

\* C5: when fit raises a configuration or data error, none of the fitted
\* attributes differs from its value before the call.
C5_ErrorLeavesFittedAttributes ==
    (fit_pc = "done" /\ fit_result.error \in ConfigurationOrDataErrors) => est = est_before

Distance(a, b) == IF a >= b THEN a - b ELSE b - a

\* the integer nearest to n_texts * thousandths / 1000, the even one of two
\* that are equally near
NearestInteger(n_texts, thousandths) ==
    CHOOSE k \in 0..(n_texts + 1) :
        \/ 2 * Distance(1000 * k, n_texts * thousandths) < 1000
        \/ /\ 2 * Distance(1000 * k, n_texts * thousandths) = 1000
           /\ k % 2 = 0

\* the call gets as far as the size checks
ReachesSizeChecks ==
    /\ CheckParams(hyperparameters) = Accepted
    /\ CheckTextsParam(fit_X)
    /\ fit_y.is_none \/ CheckTextsParam(fit_y.list)

\* C6: with n_eval = round(len(X) * validation_fraction), fit raises, with no
\* network built or trained, when len(y) # len(X), when n_eval < 1 and when
\* n_eval >= len(X); otherwise the last n_eval texts are the evaluation set
\* and the first len(X) - n_eval texts the training set, both non-empty and
\* together all of X.
C6_EvaluationSplit ==
    (fit_pc = "done" /\ ReachesSizeChecks) =>
        LET n_texts == Len(fit_X)
            n_eval == NearestInteger(n_texts, hyperparameters["validation_fraction"].v)
            raised == fit_result.error \in
                          {"length", "no_evaluation_samples", "no_training_samples"}
        IN  /\ raised => est = est_before
            /\ IF ~fit_y.is_none /\ Len(fit_y.list) # n_texts
               THEN fit_result.error = "length"
               ELSE IF n_eval < 1 THEN fit_result.error = "no_evaluation_samples"
               ELSE IF n_eval >= n_texts THEN fit_result.error = "no_training_samples"
               ELSE /\ ~raised
                    /\ fit_result.error \in {"ok", "training"} =>
                           /\ fit_result.n_eval_set = n_eval
                           /\ Len(fit_result.X_eval) = n_eval
                           /\ Len(fit_result.X_train) = n_texts - n_eval
                           /\ fit_result.X_eval # <<>>
                           /\ fit_result.X_train # <<>>
                           /\ fit_result.X_train \o fit_result.X_eval = fit_X
                           /\ \A i \in 1..n_eval :
                                  fit_result.X_eval[i] = fit_X[n_texts - n_eval + i]

\* three texts, half of them for evaluation: 1.5 is rounded to 2, and the
\* training text is not the texts kept for evaluation
C6_Witness ==
    /\ fit_pc = "done"
    /\ fit_result.error = "ok"
    /\ Len(fit_X) = 3
    /\ hyperparameters["validation_fraction"] = FloatV(500)
    /\ fit_result.n_eval_set = 2
    /\ fit_result.X_train = <<Text(<<>>)>>
    /\ fit_result.X_eval = <<Text(<<"a">>), Text(<<"a">>)>>

InitPredict ==
    PredictInit /\ TextsIdle /\ WordsIdle /\ ParamsIdle /\ EstimatorIdle /\ AuxIdle

SpecPredict == InitPredict /\ [][PredictNext]_vars

(***************************************************************************)
(* Claims about predict                                                    *)
(***************************************************************************)
\* the greedy decode of one row on its own: feed SEQUENCE_BEGIN, then each
\* sampled character, until SEQUENCE_END is sampled or more than bound
\* characters are emitted
RECURSIVE GreedyFrom(_, _, _, _, _)
GreedyFrom(w, h, token_idx, emitted, bound) ==
    LET out == DecoderStep(w, h, token_idx)
        char == ReverseTargetCharIndex[out.token]
        now == Append(emitted, char)
    IN  IF char = SEQUENCE_END \/ Len(now) > bound THEN now
        ELSE GreedyFrom(w, out.state, out.token, now, bound)

DecodeOfText(text) ==
    JoinSymbols(GreedyFrom(weights,
                           EncodeState(weights, RowOfText(text, InputTextSize)),
                           TargetCharIndex(SEQUENCE_BEGIN), <<>>,
                           output_text_size_in_characters_))

\* C1: predict returns exactly n texts, the i-th the decode of X[i], none of
\* them from a padding row, in a list when X is a list and a tuple when X is
\* a tuple.
C1_OneTextPerInput ==
    pr_pc = "done" =>
        /\ Len(predicted.items) = Len(X.items)
        /\ \A i \in DOMAIN X.items : predicted.items[i] = DecodeOfText(X.items[i])
        /\ X.kind = "list" => predicted.kind = "list"
        /\ X.kind = "tuple" => predicted.kind = "tuple"

\* a tuple of three texts, the last batch padded, the texts not all decoded alike
C1_Witness ==
    /\ pr_pc = "done"
    /\ X.kind = "tuple"
    /\ Len(X.items) = 3
    /\ batch_size = 2
    /\ Len(predicted.items) = 3
    /\ predicted.items[3] # predicted.items[2]

RowPhase(k) ==
    IF stop_conditions[k] THEN 3
    ELSE IF Len(decoded_sentences[k]) > 0 THEN 2
    ELSE 1

\* C2: in the decode loop a row becomes stopped exactly at the step where the
\* character sampled for it is SEQUENCE_END or its emitted characters exceed
\* output_text_size_in_characters_; a stopped row stays stopped and its
\* emitted list is never changed again; the phases STARTED (1), EMITTING (2),
\* STOPPED (3) never go backwards.
C2_RowStateMachine ==
    [][(pr_pc = "decode" /\ pr_pc' = "decode") =>
          \A k \in DOMAIN stop_conditions :
              /\ RowPhase(k)' >= RowPhase(k)
              /\ stop_conditions[k] =>
                     /\ stop_conditions'[k]
                     /\ decoded_sentences'[k] = decoded_sentences[k]
              /\ ~stop_conditions[k] =>
                     /\ Len(decoded_sentences'[k]) = Len(decoded_sentences[k]) + 1
                     /\ SubSeq(decoded_sentences'[k], 1, Len(decoded_sentences[k]))
                            = decoded_sentences[k]
                     /\ stop_conditions'[k] <=>
                            \/ decoded_sentences'[k][Len(decoded_sentences'[k])]
                                   = SEQUENCE_END
                            \/ Len(decoded_sentences'[k])
                                   > output_text_size_in_characters_]_vars

\* a row stopped by SEQUENCE_END while another row of the batch has gone on
\* emitting for later steps
C2_Witness ==
    /\ pr_pc = "decode"
    /\ \E k, m \in DOMAIN stop_conditions :
           /\ stop_conditions[k]
           /\ decoded_sentences[k][Len(decoded_sentences[k])] = SEQUENCE_END
           /\ ~stop_conditions[m]
           /\ Len(decoded_sentences[m]) > Len(decoded_sentences[k]) + 1

\* C3: the decode loop ends for every batch: after at most
\* output_text_size_in_characters_ + 1 decoder steps every row is stopped,
\* and a row that reaches the bound without SEQUENCE_END is returned cut, as
\* a text of the result.
C3_DecodeLoopBounded ==
    /\ decoder_steps <= output_text_size_in_characters_ + 1
    /\ (pr_pc = "decode" /\ decoder_steps = output_text_size_in_characters_ + 1) =>
           \A k \in DOMAIN stop_conditions : stop_conditions[k]
    /\ pr_pc = "decode" =>
           \A k \in DOMAIN stop_conditions :
               /\ Len(decoded_sentences[k]) <= decoder_steps
               /\ (~stop_conditions[k]) => Len(decoded_sentences[k]) = decoder_steps
    /\ pr_pc = "done" => predicted.kind # "none"

\* a text that reached the bound without SEQUENCE_END and was returned
C3_Witness ==
    /\ pr_pc = "done"
    /\ \E k \in DOMAIN decoded_sentences :
           /\ Len(decoded_sentences[k]) = output_text_size_in_characters_ + 1
           /\ decoded_sentences[k][Len(decoded_sentences[k])] # SEQUENCE_END
           /\ \E i \in DOMAIN predicted.items :
                  predicted.items[i] = JoinSymbols(decoded_sentences[k])

InitParams ==
    ParamsInit /\ TextsIdle /\ WordsIdle /\ PredictIdle /\ EstimatorIdle /\ AuxIdle

SpecParams == InitParams /\ [][ParamsNext]_vars

(***************************************************************************)
(* Claims about check_params                                               *)
(***************************************************************************)
\* a positive integer (a bool counts as the int it is in Python)
IsPositiveInteger(x) == x.t \in {"int", "bool"} /\ x.v > 0

\* a float strictly between 0 and 1
IsFraction(x) == x.t = "float" /\ ~x.nan /\ x.v > 0 /\ x.v < 1000

IsPositiveFloat(x) == x.t = "float" /\ ~x.nan /\ x.v > 0

\* the defects the claim lists
HasDefect(params) ==
    \/ \E name \in {"batch_size", "max_epochs", "latent_dim", "kernel_size",
                    "n_recurrent_units"} : ~IsPositiveInteger(params[name])
    \/ \E name \in {"input_text_size", "output_text_size", "output_onehot_size"} :
           params[name].t # "NoneType" /\ ~IsPositiveInteger(params[name])
    \/ LET x == params["n_filters"]
       IN  IF x.t = "tuple"
           THEN Len(x.items) = 0 \/ \E i \in DOMAIN x.items : ~IsPositiveInteger(x.items[i])
           ELSE ~IsPositiveInteger(x)
    \/ ~IsFraction(params["validation_fraction"])
    \/ ~IsPositiveFloat(params["lr"])
    \/ \E name \in {"warm_start", "use_batch_norm", "use_attention", "verbose"} :
           params[name].t \notin {"bool", "int"}

\* C7 (as stated): check_params raises for every parameter set with a defect
\* (a size that is not a positive integer, an n_filters element that is not a
\* positive integer, a validation_fraction that is not a float strictly
\* between 0 and 1, an lr that is not a positive float, a flag of the wrong
\* type) and accepts every parameter set without one.
C7_RaisesExactlyOnDefect ==
    cp_pc = "done" => (cp_result # Accepted <=> HasDefect(cp_params))

InitWords ==
    WordsInit /\ TextsIdle /\ ParamsIdle /\ PredictIdle /\ EstimatorIdle /\ AuxIdle

SpecWords == InitWords /\ [][WordsNext]_vars

(***************************************************************************)
(* Claims about find_best_words                                            *)
(***************************************************************************)
\* the class of a returned value: None, [], one special symbol, words
ClassOf(r) ==
    IF r.is_none THEN "end"
    ELSE IF r.list = <<>> THEN "unknown"
    ELSE IF Len(r.list) = 1 /\ r.list[1][1] \in Range(AllSpecialSymbols) THEN "special"
    ELSE "word"

\* the fixed priority end < unknown < special < word
Priority(c) ==
    CASE c = "end" -> 1 [] c = "unknown" -> 2 [] c = "special" -> 3 [] c = "word" -> 4

ClassDistance(q, c) ==
    CASE c = "end" -> q.to_end
      [] c = "unknown" -> q.to_unknown
      [] c = "special" -> q.to_special[ArgMin(q.to_special)]
      [] c = "word" -> q.similar[1][2]

ClassesOf(q) ==
    IF Len(q.to_special) = 0 THEN {"end", "unknown", "word"}
    ELSE {"end", "unknown", "special", "word"}

\* the winner of the total order: smallest distance, and on equal distances
\* the class later in the priority
Winner(q) ==
    CHOOSE c \in ClassesOf(q) :
        \A d \in ClassesOf(q) \ {c} :
            \/ ClassDistance(q, c) < ClassDistance(q, d)
            \/ ClassDistance(q, c) = ClassDistance(q, d) /\ Priority(c) > Priority(d)

\* C10 (as stated): the returned value is the outcome of the class with the
\* smallest distance, equal distances resolved by end < unknown < special <
\* word (the later class wins).
C10_WinnerOfTotalOrder ==
    fw_pc = "done" => ClassOf(res) = Winner(word_query)

\* c is strictly nearer than every other class
StrictlyNearest(q, c) ==
    \A d \in ClassesOf(q) \ {c} :
        /\ ClassDistance(q, c) < ClassDistance(q, d)
        /\ d = "special" => \A i \in DOMAIN q.to_special : ClassDistance(q, c) < q.to_special[i]

\* C11: when the end vector is strictly nearer than the unknown vector, the
\* best word and every special symbol, find_best_words returns None; when the
\* unknown vector is strictly nearer than the others, it returns [].
C11_EndAndUnknownOutcomes ==
    fw_pc = "done" =>
        /\ StrictlyNearest(word_query, "end") => res = NoneValue
        /\ StrictlyNearest(word_query, "unknown") => res = ListValue(<<>>)

\* the unknown vector strictly nearest with a special symbol configured
C11_Witness ==
    /\ fw_pc = "done"
    /\ Len(special_symbols) >= 1
    /\ StrictlyNearest(word_query, "unknown")
    /\ res = ListValue(<<>>)

\* C12: a returned list of word candidates holds at most n pairs (word,
\* distance of the decoded vector to the padded word), in ascending order of
\* distance and then of word, with and without special symbols.
C12_WordCandidatesSorted ==
    (fw_pc = "done" /\ ClassOf(res) = "word") =>
        /\ Len(res.list) <= Len(word_query.similar)
        /\ \A i \in DOMAIN res.list : res.list[i] \in Range(word_query.similar)
        /\ \A i \in DOMAIN res.list :
               i > 1 => ~PairLess(res.list[i], res.list[i - 1])

InitTexts ==
    TextsInit /\ WordsIdle /\ ParamsIdle /\ PredictIdle /\ EstimatorIdle /\ AuxIdle

SpecTexts == InitTexts /\ [][TextsNext]_vars

(***************************************************************************)
(* Claims about find_best_texts                                            *)
(***************************************************************************)
\* the words of a joined text: split at the single spaces
RECURSIVE SplitFrom(_, _, _)
SplitFrom(s, i, cur) ==
    IF i > Len(s) THEN <<cur>>
    ELSE IF s[i] = " " THEN <<cur>> \o SplitFrom(s, i + 1, <<>>)
    ELSE SplitFrom(s, i + 1, Append(cur, s[i]))

SplitText(s) == SplitFrom(s, 1, <<>>)

\* the number of word positions at which two texts differ
DiffPositions(a, b) ==
    LET wa == SplitText(a)
        wb == SplitText(b)
    IN  IF Len(wa) # Len(wb) THEN {0}
        ELSE { p \in DOMAIN wa : wa[p] # wb[p] }

\* the non-best candidates as a set of <<position, rank, distance>>
NonBestSet(v) ==
    UNION { { <<p, r, v[p][r][2]>> : r \in 2..Len(v[p]) } : p \in DOMAIN v }

\* ascending distance, ties by position, then rank
Before(c, d) ==
    \/ c[3] < d[3]
    \/ c[3] = d[3] /\ c[1] < d[1]
    \/ c[3] = d[3] /\ c[1] = d[1] /\ c[2] < d[2]

\* the k-th non-best candidate of that order: exactly k - 1 come before it
KthNonBest(v, k) ==
    CHOOSE c \in NonBestSet(v) :
        Cardinality({ d \in NonBestSet(v) : Before(d, c) }) = k - 1

\* C8 (as stated): every text after the first differs from the first
\* (greedy) text in exactly one word position.
C8_EachVariantOneSubstitution ==
    ft_pc = "done" =>
        \A k \in 2..Len(used_variants) :
            Cardinality(DiffPositions(used_variants[k], used_variants[1])) = 1

\* C9: the greedy text comes first, followed by exactly
\* min(ntop - 1, number of non-best candidates) texts, the k-th of which has,
\* at the position of the k-th non-best candidate (ascending distance, ties by
\* position then rank), that candidate's word; and the table
\* [(cat,0.1),(dog,0.3)], [(ran,0.05)] with ntop = 2 gives "cat ran", "dog ran".
ExampleTable ==
    << << <<Cat, 10>>, <<Dog, 30>> >>, << <<Ran, 5>> >> >>

ExampleResult ==
    << <<"c", "a", "t", " ", "r", "a", "n">>, <<"d", "o", "g", " ", "r", "a", "n">> >>

C9_GreedyFirstThenRanked ==
    ft_pc = "done" =>
        /\ used_variants[1] = JoinWords([p \in DOMAIN variants_of_text |->
                                            variants_of_text[p][1][1]])
        /\ Len(used_variants) =
               1 + Min(ntop - 1, Cardinality(NonBestSet(variants_of_text)))
        /\ \A k \in 1..(Len(used_variants) - 1) :
               LET c == KthNonBest(variants_of_text, k)
               IN  SplitText(used_variants[k + 1])[c[1]] = variants_of_text[c[1]][c[2]][1]
        /\ (variants_of_text = ExampleTable /\ ntop = 2) =>
               used_variants = ExampleResult

C9_Witness ==
    /\ ft_pc = "done"
    /\ variants_of_text = ExampleTable
    /\ ntop = 2
    /\ used_variants = ExampleResult

(***************************************************************************)
(* Claims about the vocabulary and its matrix                              *)
(***************************************************************************)
\* the words of the texts that get a row of their own: not a special symbol
\* and with an embedding of non-zero norm
UsableWords ==
    { w \in Range(Flatten(all_texts)) :
        /\ w # ""
        /\ w \notin Range(voc_special_symbols)
        /\ ~Embedding(w).is_none
        /\ NormAboveEpsilon(Embedding(w).list) }

NumberOfRows == Cardinality(DOMAIN prepared.word_vectors)

NumberOfColumns == Cardinality(DOMAIN prepared.word_vectors[0])

NumberOfWordRows ==
    IF src_fasttext.quantize_called
    THEN Cardinality(Range(src_fasttext.quantized.word_clusters))
    ELSE Cardinality(UsableWords)

\* C13: the matrix has one row per embedded word (per cluster when the
\* vectors were quantized) plus 2 plus the number of special symbols; every
\* non-empty token of the texts and the empty token have an index that is a
\* row of the matrix; texts without any embedded word give the reserved rows
\* only.
C13_RowsAndIndices ==
    voc_pc = "done" =>
        /\ NumberOfRows = NumberOfWordRows + 2 + Len(voc_special_symbols)
        /\ \A w \in (Range(Flatten(all_texts)) \ {""}) \cup {""} :
               /\ w \in DOMAIN prepared.vocabulary
               /\ prepared.vocabulary[w] \in 0..(NumberOfRows - 1)
        /\ UsableWords = {} => NumberOfRows = 2 + Len(voc_special_symbols)

C13_Witness ==
    /\ voc_pc = "done"
    /\ src_fasttext.quantize_called
    /\ voc_special_symbols = <<"<a>">>
    /\ {"<a>", "oov", "nil", "alpha", ""} \subseteq DOMAIN prepared.vocabulary
    /\ NumberOfRows = NumberOfWordRows + 3

OneHotAt(row, col) ==
    \A c \in DOMAIN prepared.word_vectors[row] :
        prepared.word_vectors[row][c] = (IF c = col THEN 1 ELSE 0)

\* C14: the row of unknown words is one-hot in the last column but one, the
\* row of the end of the sequence in the last column, the row of each
\* special symbol in a column of its own after the embedding block; no two
\* reserved rows share a column; the rows of words are 0 in these columns.
C14_ReservedRowsLayout ==
    voc_pc = "done" =>
        LET n_src == NumberOfWordRows
            reserved == n_src..(NumberOfRows - 1)
        IN  /\ OneHotAt(n_src, NumberOfColumns - 2)
            /\ OneHotAt(NumberOfRows - 1, NumberOfColumns - 1)
            /\ \A i \in 1..Len(voc_special_symbols) :
                   \E col \in EmbeddingVectorSize..(NumberOfColumns - 1) :
                       OneHotAt(n_src + i, col)
            /\ \A r1, r2 \in reserved : \A col \in 0..(NumberOfColumns - 1) :
                   (r1 # r2 /\ prepared.word_vectors[r1][col] # 0)
                       => prepared.word_vectors[r2][col] = 0
            /\ \A r \in 0..(n_src - 1) : \A col \in EmbeddingVectorSize..(NumberOfColumns - 1) :
                   prepared.word_vectors[r][col] = 0

FirstOccurrence(w) ==
    CHOOSE i \in DOMAIN Flatten(all_texts) :
        /\ Flatten(all_texts)[i] = w
        /\ \A j \in 1..(i - 1) : Flatten(all_texts)[j] # w

\* C15: the vectors are quantized exactly when a budget is given and is
\* below the number N of embedded words, hence only with N >= 2; otherwise
\* the words are numbered 0..N-1 in the order of their first occurrence and
\* the row of each word is its own vector.
C15_QuantizeOnlyOverBudget ==
    voc_pc = "done" =>
        LET N == Cardinality(UsableWords)
            vocabulary == src_fasttext.vocabulary
        IN  /\ src_fasttext.quantize_called
                   <=> (max_vocabulary_size # 0 /\ max_vocabulary_size < N)
            /\ src_fasttext.quantize_called => N >= 2
            /\ ~src_fasttext.quantize_called =>
                   /\ DOMAIN vocabulary = UsableWords
                   /\ { vocabulary[w] : w \in UsableWords } = 0..(N - 1)
                   /\ \A a, b \in UsableWords :
                          vocabulary[a] < vocabulary[b]
                              <=> FirstOccurrence(a) < FirstOccurrence(b)
                   /\ Len(src_fasttext.word_vectors) = N
                   /\ \A w \in UsableWords :
                          src_fasttext.word_vectors[vocabulary[w] + 1] = Embedding(w).list

C15_Witness ==
    /\ voc_pc = "done"
    /\ ~src_fasttext.quantize_called
    /\ max_vocabulary_size = Cardinality(UsableWords)
    /\ Cardinality(UsableWords) = 2
    /\ src_fasttext.vocabulary["beta"] = 0

\* C16: when the vectors are quantized, every vector gets one cluster that
\* is a row of the centroids: its label, or for a noise point a new cluster
\* no other vector has; every centroid has a member; every word of the
\* vocabulary is mapped to a row of the centroids.
C16_ClustersAreCentroidRows ==
    (voc_pc = "done" /\ src_fasttext.quantize_called) =>
        LET labels == src_fasttext.predicted
            word_clusters == src_fasttext.quantized.word_clusters
            rows == 0..(Len(src_fasttext.quantized.cluster_centers) - 1)
        IN  /\ DOMAIN word_clusters = DOMAIN labels
            /\ Len(labels) = Cardinality(UsableWords)
            /\ \A i \in DOMAIN labels :
                   /\ word_clusters[i] \in rows
                   /\ labels[i] >= 0 => word_clusters[i] = labels[i]
                   /\ labels[i] < 0 =>
                          \A j \in DOMAIN labels \ {i} : word_clusters[j] # word_clusters[i]
            /\ \A row \in rows :
                   /\ \E i \in DOMAIN word_clusters : word_clusters[i] = row
                   /\ src_fasttext.quantized.frequencies[row + 1] >= 1
            /\ \A w \in DOMAIN src_fasttext.vocabulary : src_fasttext.vocabulary[w] \in rows

C16_Witness ==
    /\ voc_pc = "done"
    /\ src_fasttext.quantize_called
    /\ src_fasttext.predicted = <<-1, 0, -1>>
    /\ src_fasttext.quantized.word_clusters = <<1, 0, 2>>

(***************************************************************************)
(* Claims about the weights files, the training phases and the state       *)
(***************************************************************************)
\* C17: when __dump_weights, __load_weights (alone, within fit or within
\* __getstate__ and __setstate__) or a training phase of fit has returned or
\* raised, the temporary file whose name it obtained does not exist.
C17_TempFileRemoved ==
    (w_pc \in {"returned", "raised", "got", "unfreeze"} /\ tmp_weights_name # 0)
        => ~tmp_files[tmp_weights_name].exists

C17_Witness ==
    /\ w_op = "fit"
    /\ w_pc = "raised"
    /\ phase = "seq2seq"
    /\ \E e \in Range(w_log) : e.phase = "seq2seq" /\ e.step = "checkpoint"
    /\ ~tmp_files[tmp_weights_name].exists

StepsOf(ph) == SelectSeq(w_log, LAMBDA e : e.phase = ph /\ e.step \notin {"training_started", "checkpoint"})

Checkpoints(ph) == SelectSeq(w_log, LAMBDA e : e.phase = ph /\ e.step = "checkpoint")

Position(ph, step) ==
    IF \E i \in DOMAIN w_log : w_log[i].phase = ph /\ w_log[i].step = step
    THEN CHOOSE i \in DOMAIN w_log :
             /\ w_log[i].phase = ph /\ w_log[i].step = step
             /\ \A j \in 1..(i - 1) : ~(w_log[j].phase = ph /\ w_log[j].step = step)
    ELSE 0

ExpectedSteps(ph) ==
    IF Len(Checkpoints(ph)) > 0
    THEN <<"training_ended", "reload", "remove">>
    ELSE <<"training_ended">>

\* the weights of the decoder of the VAE after the epochs of the checkpoint
\* written last, or after the last epoch when none was written
BestVaeWeights ==
    LET written == Checkpoints("vae")
    IN  MaxSeed + (IF Len(written) > 0 THEN written[Len(written)].epochs
                   ELSE w_log[Position("vae", "training_ended")].epochs)

\* C18: a fit that returns has done, in this order: the training of the
\* VAE, the reload of its best weights and the removal of their file if
\* a checkpoint was written, the training of the generator, the reload and
\* the removal for the generator.  The training of the generator starts
\* after the training of the VAE has ended and its checkpoint, if any,
\* has been reloaded, and works with these weights of the VAE.
C18_TrainingOrder ==
    /\ (w_op = "fit" /\ w_pc = "returned") =>
           /\ \A ph \in {"vae", "seq2seq"} :
                  [i \in DOMAIN StepsOf(ph) |-> StepsOf(ph)[i].step] = ExpectedSteps(ph)
           /\ \A i, j \in DOMAIN w_log :
                  (w_log[i].phase = "vae" /\ w_log[j].phase = "seq2seq") => i < j
    /\ (w_op = "fit" /\ Position("seq2seq", "training_started") # 0) =>
           /\ Position("vae", "training_ended") # 0
           /\ Position("vae", "training_ended") < Position("seq2seq", "training_started")
           /\ Len(Checkpoints("vae")) > 0 =>
                  /\ Position("vae", "reload") # 0
                  /\ Position("vae", "reload") < Position("seq2seq", "training_started")
    /\ (w_op = "fit" /\ phase = "seq2seq" /\ w_pc \in {"training", "load", "finally"}) =>
           \A l \in VaeDecoderLayers(w_est.hyperparameters) :
               layers[l].weights = BestVaeWeights

C18_Witness ==
    /\ w_op = "fit"
    /\ w_pc = "returned"
    /\ Len(Checkpoints("vae")) = 1
    /\ Checkpoints("vae")[1].epochs = 1
    /\ w_log[Position("vae", "training_ended")].epochs = 2
    /\ Len(Checkpoints("seq2seq")) = 0

WarmStart == w_op = "fit" /\ w_est.hyperparameters["warm_start"].v = 1

FrozenLayers == EncoderConvLayers(w_est.hyperparameters) \cup {"z_mean", "z_log_var"}

\* C19: in a fit with warm_start the convolution layers of the encoder,
\* z_mean and z_log_var are not trainable and the layers of the decoder are
\* trainable throughout the training of the VAE, these layers of the encoder
\* start the training with the weights they had before __create_model, and
\* after the training every layer of the VAE is trainable; in a fit without
\* warm_start every layer is trainable at all times.
C19_WarmStartFreezesEncoder ==
    /\ (WarmStart /\ phase = "vae" /\ w_pc \in {"name", "training", "load", "finally"}) =>
           /\ \A l \in FrozenLayers : ~layers[l].trainable
           /\ \A l \in VaeDecoderLayers(w_est.hyperparameters) : layers[l].trainable
    /\ (WarmStart /\ phase = "vae" /\ w_pc = "training" /\ epoch = 0) =>
           \A l \in FrozenLayers :
               /\ l \in DOMAIN weights_as_bytes.content
               /\ layers[l].weights = weights_as_bytes.content[l]
    /\ (WarmStart /\ phase = "seq2seq" /\ w_pc # "returned") =>
           \A l \in FullVaeLayers(w_est.hyperparameters) : layers[l].trainable
    /\ (w_op = "fit" /\ ~WarmStart) => \A l \in DOMAIN layers : layers[l].trainable

\* C20: the record of __getstate__ holds the hyperparameters, the fitted
\* sizes and tables of the estimator and the bytes of each of its four
\* networks, and the estimator __setstate__ makes of it is fitted, has these
\* hyperparameters, sizes and tables, and each of its networks has the
\* weights of the bytes dumped for it.
C20_StateRoundTrip ==
    /\ (w_op = "state" /\ w_pc = "got") =>
           /\ w_state.is_fitted
           /\ w_state.hyperparameters = w_est.hyperparameters
           /\ w_state.attributes = w_est.attributes
           /\ \A network \in Range(NetworkNames) :
                  w_state.weights_[network] =
                      Bytes(TRUE, WeightsOf(layers, NetworkLayers(network, w_est.hyperparameters)))
    /\ (w_op = "state" /\ w_pc = "returned") =>
           /\ w_est.fitted
           /\ w_est.hyperparameters = w_state.hyperparameters
           /\ w_est.attributes = w_state.attributes
           /\ w_est.attributes = Attributes(FittedBefore)
           /\ \A network \in Range(NetworkNames) :
                  WeightsOf(layers, NetworkLayers(network, w_est.hyperparameters))
                      = w_state.weights_[network].content

C20_Witness ==
    /\ w_op = "state"
    /\ w_pc = "returned"
    /\ w_est.fitted
    /\ w_est.hyperparameters["n_filters"].t = "tuple"
    /\ w_est.hyperparameters["use_attention"].v = 1
    /\ layers["attention_aux3"].weights = MaxSeed
    /\ layers["z_mean"].weights = MaxSeed

(***************************************************************************)
(* Claims about the emitted lists of predict                               *)
(***************************************************************************)
IsPrefix(s, t) == Len(s) <= Len(t) /\ SubSeq(t, 1, Len(s)) = s

\* C30: in every state of predict's decode loop the emitted list of a row
\* holds at most output_text_size_in_characters_ + 1 symbols, SEQUENCE_END
\* occurs in it only as its last symbol, the list holds what the decoder
\* sampled after SEQUENCE_BEGIN was fed (SEQUENCE_BEGIN itself only when it
\* was sampled), and the text kept for a row is the concatenation of its
\* emitted symbols.
C30_EmittedList ==
    \A k \in DOMAIN decoded_sentences :
        LET emitted == decoded_sentences[k]
            first_pos == start_pos - Len(data_for_batch)
        IN  /\ Len(emitted) <= output_text_size_in_characters_ + 1
            /\ \A j \in 1..(Len(emitted) - 1) : emitted[j] # SEQUENCE_END
            /\ IsPrefix(emitted,
                        GreedyFrom(weights, EncodeState(weights, data_for_batch[k]),
                                   TargetCharIndex(SEQUENCE_BEGIN), <<>>,
                                   output_text_size_in_characters_))
            /\ (/\ pr_pc \in {"next", "done"}
                /\ k <= NTextsInBatch(first_pos, Len(data_for_batch), Len(X.items))) =>
                   generated_texts[first_pos + k] = JoinSymbols(emitted)

\* a returned text whose emitted list holds a sampled SEQUENCE_BEGIN and ends
\* with SEQUENCE_END, next to a row that was cut at the bound
C30_Witness ==
    /\ pr_pc = "done"
    /\ \E k, m \in DOMAIN decoded_sentences :
           /\ Len(decoded_sentences[k]) > 1
           /\ \E j \in 1..(Len(decoded_sentences[k]) - 1) :
                  decoded_sentences[k][j] = SEQUENCE_BEGIN
           /\ decoded_sentences[k][Len(decoded_sentences[k])] = SEQUENCE_END
           /\ Len(decoded_sentences[m]) = output_text_size_in_characters_ + 1
           /\ \E i \in DOMAIN predicted.items :
                  predicted.items[i] = JoinSymbols(decoded_sentences[k])

(***************************************************************************)
(* Claims about postprocess_reconstructed_word_vectors                     *)
(***************************************************************************)
\* the time steps, from 0, whose arg-max component is the end column
EndSteps(sample) ==
    { t \in 0..(Len(sample) - 1) : ArgMax(sample[t + 1]) = Len(sample[t + 1]) - 1 }

\* the number of leading steps to keep: max(e, 1) for the first end step e,
\* all steps when there is none
StepsToKeep(sample) ==
    IF EndSteps(sample) = {} THEN Len(sample)
    ELSE Max(CHOOSE e \in EndSteps(sample) : \A t \in EndSteps(sample) : e <= t, 1)

\* C23: postprocess_reconstructed_word_vectors rejects an array that is not
\* 3-D; of a 3-D array it treats each sample on its own: with e the first
\* time step whose arg-max is the end column it keeps the max(e, 1) leading
\* steps (all steps when there is no such e) without their end column, every
\* later step is all-zero, and the result has the samples and time steps of
\* the argument and one column less.
C23_KeepsLeadingSteps ==
    pp_pc = "done" =>
        /\ decoder_output.ndim # 3 => prepared_word_vectors.raised
        /\ decoder_output.ndim = 3 =>
               /\ ~prepared_word_vectors.raised
               /\ Len(prepared_word_vectors.prepared) = Len(decoder_output.samples)
               /\ \A s \in DOMAIN decoder_output.samples :
                      LET sample == decoder_output.samples[s]
                          out == prepared_word_vectors.prepared[s]
                      IN  /\ Len(out) = Len(sample)
                          /\ out = PostprocessReconstructedWordVectors(
                                       Array(3, <<sample>>)).prepared[1]
                          /\ \A t \in 0..(Len(sample) - 1) :
                                 LET width == Len(sample[t + 1])
                                 IN  /\ Len(out[t + 1].numerator) = width - 1
                                     /\ t < StepsToKeep(sample) =>
                                            out[t + 1].numerator
                                                = SubSeq(sample[t + 1], 1, width - 1)
                                     /\ t >= StepsToKeep(sample) =>
                                            /\ \A c \in 1..(width - 1) :
                                                   out[t + 1].numerator[c] = 0
                                            /\ out[t + 1].squared_norm = 1

\* two samples: one whose step 0 has its arg-max in the end column, so that
\* one step is kept and the next is zero, and one without any end step
C23_Witness ==
    /\ pp_pc = "done"
    /\ decoder_output.ndim = 3
    /\ Len(decoder_output.samples) = 2
    /\ Len(decoder_output.samples[1]) = 2
    /\ EndSteps(decoder_output.samples[1]) = {0}
    /\ EndSteps(decoder_output.samples[2]) = {}
    /\ prepared_word_vectors.prepared[1][1].numerator # <<0, 0>>
    /\ prepared_word_vectors.prepared[1][2].numerator = <<0, 0>>
    /\ prepared_word_vectors.prepared[2][2].numerator # <<0, 0>>

\* C24: every time step that postprocess_reconstructed_word_vectors keeps
\* is, without its end column, a well-defined vector of unit length: its
\* norm is not zero, so that the division gives no nan.
C24_KeptStepsAreUnitVectors ==
    (pp_pc = "done" /\ decoder_output.ndim = 3) =>
        \A s \in DOMAIN decoder_output.samples :
            \A t \in 0..(StepsToKeep(decoder_output.samples[s]) - 1) :
                LET step == prepared_word_vectors.prepared[s][t + 1]
                IN  /\ step.squared_norm > 0
                    /\ SquaredNorm(step.numerator) = step.squared_norm

(***************************************************************************)
(* Claims about the decoder of __create_model                              *)
(***************************************************************************)
\* C27: for every output text size T, kernel size and number of filter
\* stages that check_params accepts, __create_model builds a decoder whose
\* initial time length is positive and whose stages reach a length >= T, so
\* that after the cropping the decoder emits exactly T time steps.
C27_DecoderEmitsOutputTextSize ==
    dec_pc \in {"built", "raised"} =>
        /\ dec_pc = "built"
        /\ deconv_decoder.n_times_of_decoder > 0
        /\ deconv_decoder.length >= OutputTextSize(dec_params, dec_max_text_size)
        /\ deconv_decoder.time_steps = OutputTextSize(dec_params, dec_max_text_size)

\* what holds of the decoders that are built
DecoderBuiltReachesSize ==
    dec_pc = "built" =>
        /\ deconv_decoder.n_times_of_decoder > 0
        /\ deconv_decoder.length >= OutputTextSize(dec_params, dec_max_text_size)
        /\ deconv_decoder.time_steps = OutputTextSize(dec_params, dec_max_text_size)

(***************************************************************************)
(* Claims about transform and the batch generators                         *)
(***************************************************************************)
\* C21: transform(X) returns exactly len(X) latent rows, row i being what
\* the encoder gives for the matrix of X[i], for every batch_size, whether
\* or not it divides len(X); no row of the padding of the last batch is
\* returned.
C21_TransformRows ==
    /\ seq_kind = "transform" => Len(seq_outputs) <= Len(seq_input_texts)
    /\ (seq_kind = "transform" /\ seq_pc = "done") =>
           /\ Len(seq_outputs) = Len(seq_input_texts)
           /\ \A i \in DOMAIN seq_input_texts :
                  seq_outputs[i] =
                      VaeEncoder(TextsToDataMatrix(seq_input_texts[i], seq_input_text_size,
                                                   seq_special_symbols))

\* three texts in batches of two: the last batch was padded, and the last
\* row returned is not the one before it
C21_Witness ==
    /\ seq_kind = "transform"
    /\ seq_pc = "done"
    /\ Len(seq_input_texts) = 3
    /\ seq_batch_size = 2
    /\ Len(seq_items[1].input_data) = 2
    /\ Len(seq_outputs) = 3
    /\ seq_outputs[3] # seq_outputs[2]

IsZeroRow(row) == \A c \in DOMAIN row : row[c] = 0

IsIndicatorRow(row) ==
    \E c \in DOMAIN row : row[c] = 1 /\ \A d \in DOMAIN row \ {c} : row[d] = 0

\* the rows at the positions from `from` on are all zero rows or all
\* indicator rows
PaddingUniform(rows, from) ==
    LET after == { t \in DOMAIN rows : t >= from }
    IN  \/ \A t \in after : IsZeroRow(rows[t])
        \/ \A t \in after : IsIndicatorRow(rows[t])

\* the batches of the kind of vectorizer `kind` have uniform paddings from
\* `offset` positions after the last token on
PaddingUniformIn(kind, offset) ==
    seq_kind = kind =>
        \A idx \in DOMAIN seq_items :
            \A k \in DOMAIN seq_items[idx].input_data :
                LET words == seq_input_texts[seq_items[idx].texts[k] + 1]
                    rows == seq_items[idx].input_data[k]
                IN  /\ DOMAIN rows = 0..(seq_input_text_size - 1)
                    /\ Len(words) <= seq_input_text_size =>
                           PaddingUniform(rows, Len(words) + offset)

\* C22: in the matrix that a vectorizer (texts_to_data, the input of
\* SequenceForVAE, the input of SequenceForSeq2Seq) makes of a text of at
\* most max_length tokens, the rows at the positions from the number of
\* tokens on are all all-zero rows or all indicator rows, never both in one
\* matrix; a longer text is cut to max_length rows.
C22_PaddingRowsUniform ==
    /\ PaddingUniformIn("transform", 0)
    /\ PaddingUniformIn("vae", 0)
    /\ PaddingUniformIn("seq2seq", 0)

\* C22 as amended: the rows at the positions after the number of tokens
\* (after the row of the end indicator) are all all-zero rows or all
\* indicator rows; a longer text is cut to max_length rows.
C22_PaddingRowsUniformAfterEnd ==
    /\ PaddingUniformIn("transform", 1)
    /\ PaddingUniformIn("vae", 1)
    /\ PaddingUniformIn("seq2seq", 1)

\* a batch of SequenceForVAE with the matrix of a text without tokens: the
\* end indicator, then zero rows; and with the matrix of a text that was cut
C22_Witness ==
    /\ seq_kind = "vae"
    /\ seq_input_text_size = 3
    /\ \E idx \in DOMAIN seq_items :
           \E k, m \in DOMAIN seq_items[idx].input_data :
               /\ Len(seq_input_texts[seq_items[idx].texts[k] + 1]) = 0
               /\ IsIndicatorRow(seq_items[idx].input_data[k][0])
               /\ IsZeroRow(seq_items[idx].input_data[k][1])
               /\ IsZeroRow(seq_items[idx].input_data[k][2])
               /\ Len(seq_input_texts[seq_items[idx].texts[m] + 1]) > seq_input_text_size

\* the row of a one-hot matrix that stands for the character x
HoldsCharacter(row, chars, x) == row = Indicator(IndexIn(chars, x), Len(chars))

\* C25: for every target character sequence c of length T, SequenceForSeq2Seq
\* gives the decoder input BOS, c[0..T-1], EOS and the decoder target
\* c[0..T-1], EOS, EOS, so that target[t] = input[t+1] for every t <= T;
\* the positions written (up to T + 1) lie inside the length
\* output_text_size_in_characters_ = longest target + 3, no character of c
\* is dropped, and the later positions are all-zero.
C25_DecoderInputAndTarget ==
    seq_kind = "seq2seq" =>
        \A idx \in DOMAIN seq_items :
            \A k \in DOMAIN seq_items[idx].generator_input_data :
                LET c == seq_target_texts[seq_items[idx].texts[k] + 1]
                    T == Len(c)
                    size == LongestText(seq_target_texts) + 3
                    chars == OutputCharacters(seq_target_texts)
                    input == seq_items[idx].generator_input_data[k]
                    target == seq_items[idx].target_data[k]
                IN  /\ DOMAIN input = 0..(size - 1)
                    /\ DOMAIN target = 0..(size - 1)
                    /\ T + 1 <= size - 1
                    /\ HoldsCharacter(input[0], chars, "<BOS>")
                    /\ \A t \in 1..T : HoldsCharacter(input[t], chars, c[t])
                    /\ HoldsCharacter(input[T + 1], chars, "<EOS>")
                    /\ \A t \in 0..(T - 1) : HoldsCharacter(target[t], chars, c[t + 1])
                    /\ HoldsCharacter(target[T], chars, "<EOS>")
                    /\ HoldsCharacter(target[T + 1], chars, "<EOS>")
                    /\ \A t \in 0..T : target[t] = input[t + 1]
                    /\ \A t \in (T + 2)..(size - 1) :
                           IsZeroRow(input[t]) /\ IsZeroRow(target[t])

\* a batch with the longest target, of two characters, in five positions:
\* BOS b a EOS and a zero row in the input, b a EOS EOS and a zero row in the
\* target
C25_Witness ==
    /\ seq_kind = "seq2seq"
    /\ \E idx \in DOMAIN seq_items :
           \E k \in DOMAIN seq_items[idx].generator_input_data :
               /\ seq_target_texts[seq_items[idx].texts[k] + 1] = <<"b", "a">>
               /\ DOMAIN seq_items[idx].generator_input_data[k] = 0..4
               /\ IsIndicatorRow(seq_items[idx].generator_input_data[k][3])
               /\ IsZeroRow(seq_items[idx].generator_input_data[k][4])
               /\ seq_items[idx].target_data[k][2] = seq_items[idx].target_data[k][3]
               /\ IsZeroRow(seq_items[idx].target_data[k][4])

\* a call of __getitem__ for an index that was asked before returns what
\* the call before it returned
SameBatchAgain(kind) ==
    seq_kind = kind =>
        \A idx \in DOMAIN seq_items :
            seq_items[idx].texts # <<>> =>
                Returned(seq_items'[idx]) = Returned(seq_items[idx])

\* C26: with the weights of the networks fixed, __getitem__(idx) of
\* SequenceForVAE and of SequenceForSeq2Seq returns the same batch in every
\* call for the same idx.
C26_SameBatchOnEveryCall == [][SameBatchAgain("vae") /\ SameBatchAgain("seq2seq")]_vars

\* what holds of SequenceForVAE alone
SequenceForVAESameBatch == [][SameBatchAgain("vae")]_vars

\* the input matrices of the batches of the generator `kind` are the
\* matrices texts_to_data makes of the same texts
InputAsTextsToData(kind) ==
    seq_kind = kind =>
        \A idx \in DOMAIN seq_items :
            \A k \in DOMAIN seq_items[idx].input_data :
                seq_items[idx].input_data[k] =
                    TextsToDataMatrix(seq_input_texts[seq_items[idx].texts[k] + 1],
                                      seq_input_text_size, seq_special_symbols)

\* C28: for the same tokens, embedding lookup, special symbols and length,
\* the input matrix of training (SequenceForVAE, SequenceForSeq2Seq, through
\* the rows of prepare_vocabulary_and_word_vectors) is the input matrix of
\* inference (texts_to_data) at every time step: same columns for the
\* unknown indicator, the special symbols and the end marker, same row for a
\* word without embedding or of norm near zero, same rows after the end.
C28_TrainingMatrixIsInferenceMatrix ==
    InputAsTextsToData("vae") /\ InputAsTextsToData("seq2seq")

\* the cases in which the matrices do agree: no special symbol, no word of
\* norm zero, and for SequenceForSeq2Seq no position after the end marker
TrainingMatrixAgreesOnPlainTexts ==
    (seq_kind \in {"vae", "seq2seq"} /\ seq_special_symbols = <<>>) =>
        \A idx \in DOMAIN seq_items :
            \A k \in DOMAIN seq_items[idx].input_data :
                LET words == seq_input_texts[seq_items[idx].texts[k] + 1]
                IN  ("nil" \notin Range(words)
                        /\ (seq_kind = "seq2seq" => Len(words) + 1 >= seq_input_text_size)) =>
                    seq_items[idx].input_data[k] =
                        TextsToDataMatrix(words, seq_input_text_size, seq_special_symbols)

\* the rows of the batches of the epoch that hold the text i
RowsOfText(i) ==
    { <<idx, k>> \in (DOMAIN seq_items) \X (1..seq_batch_size) :
        k \in DOMAIN seq_items[idx].texts /\ seq_items[idx].texts[k] = i }

\* the generator has been asked every index 0 .. len(generator) - 1
EpochOver == seq_kind \in {"vae", "seq2seq"} /\ seq_served = DOMAIN seq_items

\* C29: over one epoch (the indices 0 .. len(generator) - 1) a batch
\* generator (SequenceForVAE, SequenceForSeq2Seq) serves every one of its n
\* texts in exactly one batch, every batch holds exactly batch_size samples,
\* and there is at least one batch, for every n >= 1 and batch_size >= 1.
C29_EpochServesEveryTextOnce ==
    EpochOver =>
        /\ Cardinality(DOMAIN seq_items) >= 1
        /\ \A idx \in DOMAIN seq_items : Len(seq_items[idx].texts) = seq_batch_size
        /\ \A i \in 0..(Len(seq_input_texts) - 1) : Cardinality(RowsOfText(i)) = 1

\* what holds of an epoch: whole batches, no text twice, and the first
\* n - n % batch_size texts served
EpochServesWholeBatches ==
    EpochOver =>
        /\ \A idx \in DOMAIN seq_items : Len(seq_items[idx].texts) = seq_batch_size
        /\ \A i \in 0..(Len(seq_input_texts) - 1) :
               Cardinality(RowsOfText(i)) =
                   IF i < Len(seq_input_texts) - (Len(seq_input_texts) % seq_batch_size)
                   THEN 1 ELSE 0
====
